---- MODULE Spec2Model ----
(***************************************************************************)
(* Rookt: per-player game extraction from compressed archives.             *)
(*                                                                         *)
(* The module models, from the Rust sources,                               *)
(*   - PipelineControl (events.rs): the pause/cancel primitive shared by   *)
(*     the controller thread and the worker thread;                        *)
(*   - Database (database.rs): the players / monthly_counts /              *)
(*     processed_datasets relations and their transactions;                *)
(*   - run_with_sink (pipeline.rs) with download (download.rs) and         *)
(*     PlayerWriter (writer.rs): the orchestrator, step by step.           *)
(*                                                                         *)
(* Specifications:                                                         *)
(*   SpecCtl   controller and a worker that calls check() repeatedly       *)
(*   SpecDb    a caller of update_player_counts / remove_players_below     *)
(*   Spec      pipeline runs (worker) with the controller alongside        *)
(***************************************************************************)
EXTENDS Integers, Sequences, FiniteSets, TLC

(***************************************************************************)
(* Bounds of the model.                                                    *)
(***************************************************************************)
\* API calls the controller makes on one PipelineControl.
MaxCtlOps == 3
\* Calls a direct caller of the Database makes (SpecDb).
MaxDbCalls == 3
\* Largest archive-local count handed to update_player_counts (SpecDb).
MaxCount == 2

\* Pipeline runs (processes) started one after the other on one output_dir.
MaxRuns == 2
\* The record intervals of pass 1 and pass 2, scaled down so that the bounded
\* archives reach them: ProgressEvery stands for 100_000 (pipeline.rs:198,
\* 258) and CheckEvery for 500_000 (pipeline.rs:205, 261).
ProgressEvery == 3
CheckEvery == 4
\* u32 arithmetic is done modulo U32Mod, which stands for 2^32.
U32Mod == 256
\* SpecWriter: calls made on the writer, the largest configured maximum and
\* the longest raw text.
MaxWriterCalls == 4
MaxWriterBytes == 4
MaxTextLen == 2
\* SpecParser: lines the reader holds, and reads made at the end of the stream.
MaxLines == 5
MaxEofReads == 3

\* Player names and months (one month per archive URL: generate_urls,
\* tui/app.rs:338-356, makes one URL per month and extract_month,
\* pipeline.rs:125-129, recovers it).
Players == {"al", "bo"}
Months == {1, 2}

VARIABLES
    \* ---- PipelineControl (events.rs:47-52) ----
    paused,         \* AtomicBool paused
    cancelled,      \* AtomicBool cancelled
    lockHeld,       \* Mutex<()> lock is held (only the worker ever locks it)
    parked,         \* the worker is in the condition variable's wait set
    \* ---- the two threads' positions ----
    wpc,            \* worker's position inside check(): "out" or a line
    wres,           \* what the last check() returned: "none", "ok", "cancelled"
    cpc,            \* controller's position: "idle", "l70", "l75"
    ctlFn,          \* the API call the controller is inside: "none", "resume", "cancel"
    ctlOps,         \* API calls made so far on this control
    \* ---- observations about the interleaving (read by the properties only) ----
    obs,
    \* ---- Database (database.rs): committed contents of index.db ----
    players,        \* players: name -> total_games
    monthly,        \* monthly_counts: <<player, month>> -> games
    processed,      \* processed_datasets: set of urls
    \* ---- Database: the open transaction and the call in progress ----
    dbpc,           \* "idle" or the line of the call the connection is at
    tx,             \* the open transaction's view [players, monthly] (uncommitted)
    txTodo,         \* players of `counts` the loop at line 87 has not visited
    txCur,          \* [player, count] the loop body is at
    dbCall,         \* the call: its arguments, pre (the committed rows when it began),
                    \* ret ("none", "ok", "err") and at (the line it failed at)
    dbCalls,        \* calls made so far (SpecDb)
    \* ---- the file system under output_dir ----
    zst,            \* months whose temp/<month>.pgn.zst exists (non-empty)
    zstEmpty,       \* months whose temp/<month>.pgn.zst exists with no bytes
    part,           \* months whose temp/<month>.pgn.zst.part exists
    artifacts,      \* player -> frames of players/<xx>/<name>.pgn.zst (<<>>: no file)
    \* ---- run_with_sink: the worker's position and locals ----
    archive,        \* month -> the records the archive at that URL holds
    ppc,            \* "idle" (no run in progress) or the line the run is at
    runs,           \* runs started so far
    err,            \* the Result the run is returning: "none", "ok", "error", "cancelled"
    events,         \* UiEvents sent to the sink in this run, in order
    loc,            \* the run's local variables, see LocInit
    \* ---- observations (read by the properties only) ----
    hist,           \* see HistInit
    \* ---- units exercised on their own (SpecFilter, SpecWriter) ----
    flt,            \* an is_valid_game call: [info, config, ret]
    pw,             \* a PlayerWriter and the call it is in, see PwNew
    ps              \* a PgnParser, its reader and the call it is in, see PsNew

ctlVars == <<paused, cancelled, lockHeld, parked, wpc, wres, cpc, ctlFn, ctlOps, obs>>
dbVars == <<players, monthly, processed>>
txVars == <<dbpc, tx, txTodo, txCur, dbCall, dbCalls>>
fsVars == <<zst, zstEmpty, part, artifacts>>
unitVars == <<flt, pw, ps>>
runVars == <<archive, unitVars, ppc, runs, err, events, loc, hist>>

vars == <<ctlVars, dbVars, txVars, fsVars, runVars>>

\* What the PipelineControl's steps and the Database's statements leave alone.
nonCtl == <<dbVars, txVars, fsVars, runVars>>
nonDb == <<ctlVars, fsVars, runVars>>

(***************************************************************************)
(* Configuration, archives, file system                                    *)
(***************************************************************************)

\* Config (config.rs:4-25), a small instance of it.
Urls == <<1, 2>>                 \* dataset_urls, each named by its month
EventFilter == "blitz"           \* event_filter
TimeControlFilter == <<"300+0">> \* time_control_filter: Some("300+0"); <<>> is None
MinFullMoves == 1                \* min_full_moves
MinMonthlyGames == 2             \* min_monthly_games
MinTotalGames == 3               \* min_total_games
WriteBufferMaxBytes == 5         \* write_buffer_max_bytes

\* The fields of Config that is_valid_game reads.
Config ==
    [event_filter |-> EventFilter, time_control_filter |-> TimeControlFilter,
     min_full_moves |-> MinFullMoves]

\* A record as the parser returns it: GameInfo (parser.rs) plus the length of
\* its raw text.
Rec(w, b, hm) ==
    [event |-> EventFilter, white |-> w, black |-> b,
     time_control |-> "300+0", half_move_count |-> hm, len |-> 2]

\* The archives a run may meet: each month's records, in stream order.
\* "" is an empty player name; a half-move count of 1 fails the filter.
ArchiveA ==
    [m \in Months |->
        IF m = 1
          THEN << Rec("al", "bo", 2), Rec("al", "", 2), Rec("bo", "al", 1), Rec("bo", "al", 3) >>
          ELSE << Rec("bo", "", 2), Rec("al", "", 2), Rec("", "al", 2) >>]

ArchiveB ==
    [m \in Months |->
        IF m = 1
          THEN << Rec("al", "bo", 2), Rec("bo", "bo", 1) >>
          ELSE << Rec("al", "al", 2), Rec("bo", "al", 2) >>]

\* A month with a long run of records: one game with an empty Black name,
\* games of one player against the same name, a game that fails the filter.
ArchiveC ==
    [m \in Months |->
        IF m = 1
          THEN << Rec("al", "", 2), Rec("al", "al", 2), Rec("al", "al", 2),
                  Rec("al", "al", 2), Rec("al", "al", 2), Rec("bo", "al", 1) >>
          ELSE << Rec("bo", "", 1), Rec("al", "al", 2), Rec("al", "", 2),
                  Rec("bo", "", 2), Rec("al", "", 2) >>]

ArchiveSets == {ArchiveA, ArchiveB, ArchiveC}

\* URLs that answer with an empty body.
ArchiveEmpty == [m \in Months |-> <<>>]

\* URLs whose body is longer than 10 MiB by more than two read buffers.
ArchiveBig == [m \in Months |-> << Rec("al", "", 2) >>]
BigBody == 10 * 1024 * 1024 + 2 * 64 * 1024 + 1

\* Size in bytes of the body behind each URL: a body with no bytes holds no
\* record.
ZstSize(m) ==
    IF archive[m] = <<>> THEN 0 ELSE IF archive = ArchiveBig THEN BigBody ELSE 65537

FsEmpty ==
    /\ zst = {}
    /\ zstEmpty = {}
    /\ part = {}
    /\ artifacts = [p \in Players |-> <<>>]

\* PlayerWriter::new (writer.rs:17-24)
PlayerWriterNew(max) == [buffer |-> <<>>, buffer_size |-> 0, max_buffer_size |-> max]

\* The writer of pass 2 (pipeline.rs:81), empty.
NoWriter == PlayerWriterNew(WriteBufferMaxBytes)

HistInit ==
    [ snap    |-> [players |-> <<>>, monthly |-> <<>>, processed |-> {},
                   artifacts |-> <<>>],
                                \* the index and the artifacts when the current
                                \* archive's iteration began
      abortAt |-> "none",       \* the check site that reported cancellation in this run
      skipped |-> {},           \* months the run has sent DatasetSkipped for
      added   |-> <<>>,         \* name -> add_game calls made for it in this pass 2
      sinceCheck |-> 0,         \* records the pass has consumed since its last check()
      prune   |-> [players |-> <<>>, monthly |-> <<>>, artifacts |-> <<>>],
                                \* the index and the artifacts when pruning began
      zstBytes |-> <<>>,        \* month -> bytes of the file last renamed to the destination
      failAt  |-> "none",       \* the line whose `?` returned an error in this run
      progAt  |-> {},           \* positions of the records of this pass that sent a
                                \* Pass1Progress / Pass2Progress event
      earlier |-> [month |-> 0, artifacts |-> <<>>],
                                \* when the run before this one was cancelled at the
                                \* check of pass 2: the archive's month and the
                                \* artifacts it left
      dlChecked |-> 0,          \* download: `downloaded` at the latest loop head
                                \* whose test (download.rs:49) led to check()
      before  |-> [ok |-> FALSE, players |-> <<>>, monthly |-> <<>>, processed |-> {},
                   artifacts |-> <<>>] ]
                                \* when the run before this one ended successfully:
                                \* the index and the artifacts it left

\* The locals of run_with_sink, download, pass1_count and pass2_extract.
LocInit ==
    [ idx           |-> 0,      \* i, 1-based; Urls[idx] is url and month
      downloaded    |-> 0,      \* download: downloaded
      last_report   |-> 0,      \* download: last_report
      pos           |-> 0,      \* records the parser has handed out in this pass
      scanned       |-> 0,      \* pass1_count: scanned
      valid         |-> 0,      \* pass1_count: valid
      player_counts |-> <<>>,   \* pass1_count: counts, then player_counts
      qualifying    |-> {},     \* qualifying
      extracted     |-> 0,      \* pass2_extract: extracted
      writer        |-> NoWriter,
      to_remove     |-> {},     \* names delete_player is still to be called for
      removed       |-> 0 ]     \* removed

\* No unit is being exercised.
NoFilterCall == [info |-> <<>>, config |-> <<>>, ret |-> "none"]
NoWriterCall == [pc |-> "none"]
NoParserCall == [pc |-> "none"]

NoRun ==
    /\ flt = NoFilterCall
    /\ pw = NoWriterCall
    /\ ps = NoParserCall
    /\ archive \in ArchiveSets
    /\ ppc = "idle"
    /\ runs = 0
    /\ err = "none"
    /\ events = <<>>
    /\ loc = LocInit
    /\ hist = HistInit

(***************************************************************************)
(* PipelineControl                                                          *)
(***************************************************************************)

\* What the properties remember about the current check() call and the
\* controller's calls.  None of it is read by an action's guard.
ObsInit ==
    [ entryPaused      |-> FALSE,   \* the pause flag was set when check() was entered
      resumeAfterEntry |-> FALSE,   \* resume() called after that entry, no pause()/cancel() since
      pauseHeld        |-> FALSE,   \* pause in effect since entry: no resume()/cancel() since
      cancelReturned   |-> FALSE,   \* a cancel() call has returned
      cancelLast       |-> FALSE,   \* the controller's last call is cancel()
      callAfterCancel  |-> FALSE,   \* this check() call started after a cancel() returned
      woke             |-> FALSE,   \* this check() call has come back from cvar.wait
      retAt            |-> "none" ] \* the line the last check() returned from

\* PipelineControl::new
ControlNew ==
    /\ paused = FALSE
    /\ cancelled = FALSE
    /\ lockHeld = FALSE
    /\ parked = FALSE
    /\ wpc = "out"
    /\ wres = "none"
    /\ cpc = "idle"
    /\ ctlFn = "none"
    /\ ctlOps = 0
    /\ obs = ObsInit

\* ---- controller thread -------------------------------------------------

\* pause(): one SeqCst store.
Pause ==
    /\ cpc = "idle"
    /\ ctlOps < MaxCtlOps
    /\ paused' = TRUE
    /\ ctlOps' = ctlOps + 1
    /\ obs' = [obs EXCEPT !.resumeAfterEntry = FALSE, !.cancelLast = FALSE]
    /\ UNCHANGED <<cancelled, lockHeld, parked, wpc, wres, cpc, ctlFn>>
    /\ UNCHANGED nonCtl

\* resume(), line 69: paused.store(false).  Reached by a resume() call of the
\* controller, or from cancel() at line 75.
Resume69 ==
    /\ \/ /\ cpc = "idle"
          /\ ctlOps < MaxCtlOps
          /\ ctlFn' = "resume"
          /\ ctlOps' = ctlOps + 1
          /\ obs' = [obs EXCEPT !.resumeAfterEntry = (wpc # "out" /\ obs.entryPaused),
                                !.pauseHeld = FALSE,
                                !.cancelLast = FALSE]
       \/ /\ cpc = "l75"
          /\ UNCHANGED <<ctlFn, ctlOps>>
          /\ obs' = [obs EXCEPT !.pauseHeld = FALSE]
    /\ paused' = FALSE
    /\ cpc' = "l70"
    /\ UNCHANGED <<cancelled, lockHeld, parked, wpc, wres>>
    /\ UNCHANGED nonCtl

\* resume(), line 70: cvar.notify_all() empties the wait set; the lock is
\* not taken.
Resume70 ==
    /\ cpc = "l70"
    /\ parked' = FALSE
    /\ cpc' = "idle"
    /\ ctlFn' = "none"
    /\ obs' = [obs EXCEPT !.cancelReturned = (obs.cancelReturned \/ ctlFn = "cancel")]
    /\ UNCHANGED <<paused, cancelled, lockHeld, wpc, wres, ctlOps>>
    /\ UNCHANGED nonCtl

\* cancel(), line 74: cancelled.store(true); line 75 then calls resume().
Cancel74 ==
    /\ cpc = "idle"
    /\ ctlOps < MaxCtlOps
    /\ cancelled' = TRUE
    /\ cpc' = "l75"
    /\ ctlFn' = "cancel"
    /\ ctlOps' = ctlOps + 1
    /\ obs' = [obs EXCEPT !.resumeAfterEntry = FALSE, !.pauseHeld = FALSE,
                          !.cancelLast = TRUE]
    /\ UNCHANGED <<paused, lockHeld, parked, wpc, wres>>
    /\ UNCHANGED nonCtl

\* ---- worker thread: check() ---------------------------------------------

\* check() is entered (the caller's step).
CheckEnter ==
    /\ wpc' = "l90"
    /\ wres' = "none"
    /\ obs' = [obs EXCEPT !.entryPaused = paused,
                          !.resumeAfterEntry = FALSE,
                          !.pauseHeld = (paused /\ ~cancelled),
                          !.callAfterCancel = obs.cancelReturned,
                          !.woke = FALSE,
                          !.retAt = "none"]

\* check() returns r from line `at`.
CheckReturn(r, at) ==
    /\ wpc' = "out"
    /\ wres' = r
    /\ obs' = [obs EXCEPT !.retAt = at, !.resumeAfterEntry = FALSE]

\* Check90 without the test of the cancellation flag.
Check90_NoCancelTest ==
    /\ wpc = "l90"
    /\ wpc' = "l93"
    /\ UNCHANGED <<wres, obs>>
    /\ UNCHANGED <<paused, cancelled, lockHeld, parked, cpc, ctlFn, ctlOps>>
    /\ UNCHANGED nonCtl

\* line 90: if cancelled { bail }
Check90 ==
    /\ wpc = "l90"
    /\ IF cancelled
         THEN CheckReturn("cancelled", "l90")
         ELSE wpc' = "l93" /\ UNCHANGED <<wres, obs>>
    /\ UNCHANGED <<paused, cancelled, lockHeld, parked, cpc, ctlFn, ctlOps>>
    /\ UNCHANGED nonCtl

\* line 93: while paused.load() { ... }; line 100: Ok(())
Check93 ==
    /\ wpc = "l93"
    /\ IF paused
         THEN wpc' = "l94" /\ UNCHANGED <<wres, obs>>
         ELSE CheckReturn("ok", "l93")
    /\ UNCHANGED <<paused, cancelled, lockHeld, parked, cpc, ctlFn, ctlOps>>
    /\ UNCHANGED nonCtl

\* line 94: let guard = self.lock.lock()
Check94 ==
    /\ wpc = "l94"
    /\ ~lockHeld
    /\ lockHeld' = TRUE
    /\ wpc' = "l95"
    /\ UNCHANGED <<paused, cancelled, parked, wres, cpc, ctlFn, ctlOps, obs>>
    /\ UNCHANGED nonCtl

\* line 95, first half: cvar.wait(guard) releases the lock and joins the
\* wait set in one atomic step.
Check95Park ==
    /\ wpc = "l95"
    /\ lockHeld' = FALSE
    /\ parked' = TRUE
    /\ wpc' = "wait"
    /\ UNCHANGED <<paused, cancelled, wres, cpc, ctlFn, ctlOps, obs>>
    /\ UNCHANGED nonCtl

\* Condvar::wait may return without a notification (std documents spurious
\* wake-ups): the worker leaves the wait set by itself.
SpuriousWake ==
    /\ wpc = "wait"
    /\ parked
    /\ parked' = FALSE
    /\ UNCHANGED <<paused, cancelled, lockHeld, wpc, wres, cpc, ctlFn, ctlOps, obs>>
    /\ UNCHANGED nonCtl

\* line 95, second half: out of the wait set, wait() takes the lock again
\* and returns.
Check95Wake ==
    /\ wpc = "wait"
    /\ ~parked
    /\ ~lockHeld
    /\ lockHeld' = TRUE
    /\ wpc' = "l96"
    /\ obs' = [obs EXCEPT !.woke = TRUE]
    /\ UNCHANGED <<paused, cancelled, parked, wres, cpc, ctlFn, ctlOps>>
    /\ UNCHANGED nonCtl

\* Check96 with `if paused` in place of `while paused`: after the wait the
\* flag is not read again.
Check96_NoLoop ==
    /\ wpc = "l96"
    /\ lockHeld' = FALSE
    /\ IF cancelled
         THEN CheckReturn("cancelled", "l96")
         ELSE CheckReturn("ok", "l96")
    /\ UNCHANGED <<paused, cancelled, parked, cpc, ctlFn, ctlOps>>
    /\ UNCHANGED nonCtl

\* line 96: if cancelled { bail }, else the loop body ends (the guard is
\* dropped either way) and the loop condition at line 93 is evaluated again.
Check96 ==
    /\ wpc = "l96"
    /\ lockHeld' = FALSE
    /\ IF cancelled
         THEN CheckReturn("cancelled", "l96")
         ELSE wpc' = "l93" /\ UNCHANGED <<wres, obs>>
    /\ UNCHANGED <<paused, cancelled, parked, cpc, ctlFn, ctlOps>>
    /\ UNCHANGED nonCtl

\* The steps of check() between its entry and its return.
CheckStep ==
    \/ Check90
    \/ Check93
    \/ Check94
    \/ Check95Park
    \/ SpuriousWake
    \/ Check95Wake
    \/ Check96

\* The controller's steps.
CtlStep ==
    \/ Pause
    \/ Resume69
    \/ Resume70
    \/ Cancel74

(***************************************************************************)
(* Database                                                                 *)
(***************************************************************************)

\* init_tables on a new file: three empty relations.
DbEmpty ==
    /\ players = <<>>
    /\ monthly = <<>>
    /\ processed = {}

NoCall == [op |-> "none", month |-> 0, counts |-> <<>>, min |-> 0,
           pre |-> [players |-> <<>>, monthly |-> <<>>], ret |-> "none", at |-> "none"]

TxIdle ==
    /\ dbpc = "idle"
    /\ tx = [players |-> <<>>, monthly |-> <<>>]
    /\ txTodo = {}
    /\ txCur = <<>>
    /\ dbCall = NoCall
    /\ dbCalls = 0

\* INSERT OR REPLACE INTO monthly_counts (player, month, games): the row of
\* the primary key (player, month) is replaced.
InsertOrReplaceMonthly(mon, p, month, c) ==
    [k \in (DOMAIN mon) \cup {<<p, month>>} |->
        IF k = <<p, month>> THEN c ELSE mon[k]]

\* UpsertPlayerTotal with the total replaced instead of added to.
UpsertPlayerTotal_Replace(pl, p, c) ==
    [k \in (DOMAIN pl) \cup {p} |-> IF k = p THEN c ELSE pl[k]]

\* INSERT INTO players ... ON CONFLICT(name) DO UPDATE SET total_games =
\* total_games + excluded.total_games.
UpsertPlayerTotal(pl, p, c) ==
    [k \in (DOMAIN pl) \cup {p} |->
        IF k = p
          THEN (IF p \in DOMAIN pl THEN pl[p] + c ELSE c)
          ELSE pl[k]]

\* PlayersBelowTotal with `<=` in place of `<`.
PlayersBelowTotal_Inclusive(pl, minTotal) == {p \in DOMAIN pl : pl[p] <= minTotal}

\* SELECT name FROM players WHERE total_games < ?1
PlayersBelowTotal(pl, minTotal) == {p \in DOMAIN pl : pl[p] < minTotal}

\* DeleteMonthlyBelow that deletes no row: the players go, their monthly rows
\* stay.
DeleteMonthlyBelow_KeepRows(mon, pl, minTotal) == mon

\* DELETE FROM monthly_counts WHERE player IN (SELECT name FROM players
\* WHERE total_games < ?1)
DeleteMonthlyBelow(mon, pl, minTotal) ==
    [k \in {x \in DOMAIN mon : x[1] \notin PlayersBelowTotal(pl, minTotal)} |-> mon[k]]

\* DELETE FROM players WHERE total_games < ?1
DeletePlayersBelow(pl, minTotal) ==
    [k \in (DOMAIN pl) \ PlayersBelowTotal(pl, minTotal) |-> pl[k]]

\* SELECT COUNT(*) FROM players WHERE total_games >= ?1
TotalQualifyingPlayers(pl, minTotal) ==
    Cardinality({p \in DOMAIN pl : pl[p] >= minTotal})

\* ---- update_player_counts, statement by statement -----------------------

\* line 76: self.conn.transaction(); the loop at line 87 is about to start.
UpdateBegin(month, counts) ==
    /\ dbpc = "idle"
    /\ dbpc' = "l87"
    /\ tx' = [players |-> players, monthly |-> monthly]
    /\ txTodo' = DOMAIN counts
    /\ txCur' = <<>>
    /\ dbCall' = [op |-> "update", month |-> month, counts |-> counts, min |-> 0,
                  pre |-> [players |-> players, monthly |-> monthly], ret |-> "none",
                  at |-> "none"]

\* line 87: the HashMap iterator yields the next (player, count), in no
\* particular order; when it is exhausted the loop ends.
Update87 ==
    /\ dbpc = "l87"
    /\ IF txTodo = {}
         THEN /\ dbpc' = "l93"
              /\ UNCHANGED <<txTodo, txCur>>
         ELSE \E p \in txTodo :
                /\ txCur' = [player |-> p, count |-> dbCall.counts[p]]
                /\ txTodo' = txTodo \ {p}
                /\ dbpc' = "l88"
    /\ UNCHANGED <<players, monthly, processed, tx, dbCall, dbCalls>>
    /\ UNCHANGED nonDb

\* Update88 executed on the connection, outside the transaction.
Update88_Autocommit ==
    /\ dbpc = "l88"
    /\ monthly' = InsertOrReplaceMonthly(monthly, txCur.player, dbCall.month, txCur.count)
    /\ tx' = [tx EXCEPT !.monthly =
                InsertOrReplaceMonthly(tx.monthly, txCur.player, dbCall.month, txCur.count)]
    /\ dbpc' = "l89"
    /\ UNCHANGED <<players, processed, txTodo, txCur, dbCall, dbCalls>>
    /\ UNCHANGED nonDb

\* line 88: insert_monthly.execute, inside the transaction.
Update88 ==
    /\ dbpc = "l88"
    /\ tx' = [tx EXCEPT !.monthly =
                InsertOrReplaceMonthly(tx.monthly, txCur.player, dbCall.month, txCur.count)]
    /\ dbpc' = "l89"
    /\ UNCHANGED <<players, monthly, processed, txTodo, txCur, dbCall, dbCalls>>
    /\ UNCHANGED nonDb

\* line 89: upsert_player.execute, inside the transaction.
Update89 ==
    /\ dbpc = "l89"
    /\ tx' = [tx EXCEPT !.players =
                UpsertPlayerTotal(tx.players, txCur.player, txCur.count)]
    /\ dbpc' = "l87"
    /\ UNCHANGED <<players, monthly, processed, txTodo, txCur, dbCall, dbCalls>>
    /\ UNCHANGED nonDb

\* line 93 / line 117: tx.commit() publishes the transaction's view.
TxCommit ==
    /\ dbpc \in {"l93", "l117"}
    /\ players' = tx.players
    /\ monthly' = tx.monthly
    /\ dbpc' = "idle"
    /\ dbCall' = [dbCall EXCEPT !.ret = "ok"]
    /\ UNCHANGED <<processed, tx, txTodo, txCur, dbCalls>>
    /\ UNCHANGED nonDb

\* A statement or the commit fails (`?`), or the process dies: the
\* Transaction is dropped without commit, which rolls it back (rusqlite's
\* default DropBehavior; SQLite's journal after a crash).
TxFail ==
    /\ dbpc # "idle"
    /\ dbpc' = "idle"
    /\ tx' = [players |-> players, monthly |-> monthly]
    /\ dbCall' = [dbCall EXCEPT !.ret = "err", !.at = dbpc]
    /\ UNCHANGED <<players, monthly, processed, txTodo, txCur, dbCalls>>
    /\ UNCHANGED nonDb

\* ---- remove_players_below_total, statement by statement ------------------

\* line 111: self.conn.transaction()
RemoveBegin(minTotal) ==
    /\ dbpc = "idle"
    /\ dbpc' = "l112"
    /\ tx' = [players |-> players, monthly |-> monthly]
    /\ txTodo' = {}
    /\ txCur' = <<>>
    /\ dbCall' = [op |-> "remove", month |-> 0, counts |-> <<>>, min |-> minTotal,
                  pre |-> [players |-> players, monthly |-> monthly], ret |-> "none",
                  at |-> "none"]

\* lines 112-115: delete the monthly rows of the players below the threshold.
Remove112 ==
    /\ dbpc = "l112"
    /\ tx' = [tx EXCEPT !.monthly = DeleteMonthlyBelow(tx.monthly, tx.players, dbCall.min)]
    /\ dbpc' = "l116"
    /\ UNCHANGED <<players, monthly, processed, txTodo, txCur, dbCall, dbCalls>>
    /\ UNCHANGED nonDb

\* line 116: delete the players below the threshold.
Remove116 ==
    /\ dbpc = "l116"
    /\ tx' = [tx EXCEPT !.players = DeletePlayersBelow(tx.players, dbCall.min)]
    /\ dbpc' = "l117"
    /\ UNCHANGED <<players, monthly, processed, txTodo, txCur, dbCall, dbCalls>>
    /\ UNCHANGED nonDb

\* The statements of an open call.
DbStep ==
    \/ Update87
    \/ Update88
    \/ Update89
    \/ Remove112
    \/ Remove116
    \/ TxCommit
    \/ TxFail

(***************************************************************************)
(* SpecDb: a single-threaded caller of the Database, as the pipeline is:   *)
(* update_player_counts with any month and any mapping of positive counts, *)
(* remove_players_below_total with any threshold.                          *)
(***************************************************************************)
\* The mappings player -> count a caller passes.
CountMaps == UNION {[S -> 1..MaxCount] : S \in SUBSET Players}

CallUpdate ==
    /\ dbCalls < MaxDbCalls
    /\ \E month \in Months, counts \in CountMaps : UpdateBegin(month, counts)
    /\ dbCalls' = dbCalls + 1
    /\ UNCHANGED <<players, monthly, processed>>
    /\ UNCHANGED nonDb

CallRemove ==
    /\ dbCalls < MaxDbCalls
    /\ \E minTotal \in 0..(MaxCount + 1) : RemoveBegin(minTotal)
    /\ dbCalls' = dbCalls + 1
    /\ UNCHANGED <<players, monthly, processed>>
    /\ UNCHANGED nonDb

InitDb ==
    /\ ControlNew
    /\ DbEmpty
    /\ TxIdle
    /\ FsEmpty
    /\ NoRun
    /\ archive = ArchiveA

NextDb ==
    \/ CallUpdate
    \/ CallRemove
    \/ DbStep

SpecDb == InitDb /\ [][NextDb]_vars

(***************************************************************************)
(* SpecCtl: the primitive alone.  The worker calls check() again and again *)
(* (ChannelSink::check, events.rs:266-268), the controller calls the API   *)
(* in any order.                                                           *)
(***************************************************************************)
CallCheck ==
    /\ wpc = "out"
    /\ CheckEnter
    /\ UNCHANGED <<paused, cancelled, lockHeld, parked, cpc, ctlFn, ctlOps>>
    /\ UNCHANGED nonCtl

InitCtl ==
    /\ ControlNew
    /\ DbEmpty
    /\ TxIdle
    /\ FsEmpty
    /\ NoRun
    /\ archive = ArchiveA

NextCtl ==
    \/ CallCheck
    \/ CheckStep
    \/ CtlStep

SpecCtl == InitCtl /\ [][NextCtl]_vars

(***************************************************************************)
(* PlayerWriter (writer.rs).  A buffer holds, per player, the raw texts     *)
(* added (each followed by a newline); a frame on disk is one flushed       *)
(* buffer.  A raw text is named by <<month, position in the archive>>.      *)
(***************************************************************************)

\* Players with non-empty data in the buffer (flush_all, line 58).
NonEmptyBuffers(buffer) == {p \in DOMAIN buffer : buffer[p] # <<>>}

\* WriteFrames with the file truncated on open instead of appended to.
WriteFrames_Truncate(buffer, art, S) ==
    [p \in DOMAIN art |-> IF p \in S THEN << buffer[p] >> ELSE art[p]]

\* write_compressed for the players in S: one frame appended to each file.
WriteFrames(buffer, art, S) ==
    [p \in DOMAIN art |-> IF p \in S THEN Append(art[p], buffer[p]) ELSE art[p]]

\* flush_all, successful: every non-empty buffer is written, the map is
\* drained and buffer_size reset.
FlushAllArtifacts(buffer, art) == WriteFrames(buffer, art, NonEmptyBuffers(buffer))

\* flush_all, failing at some write_compressed: the entries drained before it
\* (HashMap order: any proper subset) are on disk.
FlushFailArtifacts(buffer, art) ==
    {WriteFrames(buffer, art, S) :
        S \in (SUBSET NonEmptyBuffers(buffer)) \ {NonEmptyBuffers(buffer)}}

\* AddToBuffer without the newline's byte in the running size.
AddToBuffer_NoNewline(w, player, text, len) ==
    [buffer |->
        [k \in (DOMAIN w.buffer) \cup {player} |->
            IF k = player
              THEN Append(IF player \in DOMAIN w.buffer THEN w.buffer[player] ELSE <<>>, text)
              ELSE w.buffer[k]],
     buffer_size |-> w.buffer_size + len,
     max_buffer_size |-> w.max_buffer_size]

\* add_game, lines 43-46: the text and a newline are appended to the
\* player's entry, buffer_size grows by len + 1.
AddToBuffer(w, player, text, len) ==
    [buffer |->
        [k \in (DOMAIN w.buffer) \cup {player} |->
            IF k = player
              THEN Append(IF player \in DOMAIN w.buffer THEN w.buffer[player] ELSE <<>>, text)
              ELSE w.buffer[k]],
     buffer_size |-> w.buffer_size + len + 1,
     max_buffer_size |-> w.max_buffer_size]

\* NeedsFlush with `>` in place of `>=`.
NeedsFlush_Above(w) == w.buffer_size > w.max_buffer_size

\* add_game, line 48: the flush test.
NeedsFlush(w) == w.buffer_size >= w.max_buffer_size

(***************************************************************************)
(* SpecWriter: one PlayerWriter under any sequence of add_game and          *)
(* flush_all calls, statement by statement.  pw.w is the writer, the files  *)
(* are `artifacts`; a raw text is named by the number of the call adding it.*)
(***************************************************************************)

\* Configured maxima (0 is what the pruning pass constructs, pipeline.rs:106)
\* and raw text lengths.
WriterMaxes == 0..MaxWriterBytes
TextLens == 0..MaxTextLen

\* A writer just constructed, no call made on it.
PwNew(max) ==
    [ w       |-> PlayerWriterNew(max),
      pc      |-> "idle",      \* "idle" or the line of writer.rs the call is at
      op      |-> "none",      \* the call made by the user: "add" or "flush"
      len     |-> 0,           \* add_game: pgn.len()
      size0   |-> 0,           \* buffer_size when the call began
      flushes |-> 0,           \* flush_all calls made inside this call
      entries |-> <<>>,        \* flush_all: the drained entries not yet written
      drained |-> <<>>,        \* flush_all: all the entries it drained
      art0    |-> <<>>,        \* the artifacts when flush_all began
      failed  |-> "",          \* the player whose write_compressed failed
      ret     |-> "none",      \* the call's result: "none", "ok", "err"
      calls   |-> 0,           \* calls made so far
      log     |-> <<>>,        \* the add_game calls made, in order: [player, text, len]
      ioError |-> FALSE ]      \* some write_compressed has failed

pwKeep == UNCHANGED <<ctlVars, dbVars, txVars, zst, zstEmpty, part, archive, flt, ps, ppc, runs, err,
                      events, loc, hist>>

\* add_game, lines 43-46: the text and the newline go to the player's entry.
PwAddGame(player, len) ==
    /\ pw.pc = "idle"
    /\ pw.calls < MaxWriterCalls
    /\ pw' = [pw EXCEPT !.w = AddToBuffer(pw.w, player, pw.calls + 1, len),
                        !.pc = "l48", !.op = "add", !.len = len,
                        !.size0 = pw.w.buffer_size, !.flushes = 0, !.ret = "none",
                        !.entries = <<>>, !.drained = <<>>, !.failed = "",
                        !.calls = @ + 1,
                        !.log = Append(@, [player |-> player, text |-> pw.calls + 1,
                                           len |-> len])]
    /\ UNCHANGED artifacts
    /\ pwKeep

\* add_game, lines 48-51: flush_all()? if the size has reached the maximum.
PwAdd48 ==
    /\ pw.pc = "l48"
    /\ IF NeedsFlush(pw.w)
         THEN pw' = [pw EXCEPT !.pc = "l56", !.flushes = @ + 1]
         ELSE pw' = [pw EXCEPT !.pc = "idle", !.ret = "ok"]
    /\ UNCHANGED artifacts
    /\ pwKeep

\* flush_all called by the user of the writer (pipeline.rs:83).
PwFlushAll ==
    /\ pw.pc = "idle"
    /\ pw.calls < MaxWriterCalls
    /\ pw' = [pw EXCEPT !.pc = "l56", !.op = "flush", !.len = 0,
                        !.size0 = pw.w.buffer_size, !.flushes = 1, !.ret = "none",
                        !.entries = <<>>, !.drained = <<>>, !.failed = "",
                        !.calls = @ + 1]
    /\ UNCHANGED artifacts
    /\ pwKeep

\* flush_all, line 56: the map is drained into `entries`.
PwFlush56 ==
    /\ pw.pc = "l56"
    /\ pw' = [pw EXCEPT !.w.buffer = <<>>, !.entries = pw.w.buffer,
                        !.drained = pw.w.buffer, !.art0 = artifacts, !.pc = "l57"]
    /\ UNCHANGED artifacts
    /\ pwKeep

\* flush_all, lines 57-62: the next entry, in the map's order (any), is
\* written as one frame; an error returns at once and drops `entries`.
PwFlush57 ==
    /\ pw.pc = "l57"
    /\ IF DOMAIN pw.entries = {}
         THEN /\ pw' = [pw EXCEPT !.pc = "l63"]
              /\ UNCHANGED artifacts
         ELSE \E p \in DOMAIN pw.entries :
                LET rest == [k \in (DOMAIN pw.entries) \ {p} |-> pw.entries[k]] IN
                \/ /\ artifacts' = WriteFrames(pw.entries, artifacts, {p} \cap NonEmptyBuffers(pw.entries))
                   /\ pw' = [pw EXCEPT !.entries = rest]
                \/ /\ p \in NonEmptyBuffers(pw.entries)
                   /\ pw' = [pw EXCEPT !.entries = <<>>, !.failed = p,
                                       !.pc = "idle", !.ret = "err",
                                       !.ioError = TRUE]
                   /\ UNCHANGED artifacts
    /\ pwKeep

\* PwFlush63 without the reset of buffer_size.
PwFlush63_NoReset ==
    /\ pw.pc = "l63"
    /\ pw' = [pw EXCEPT !.pc = "idle", !.ret = "ok"]
    /\ UNCHANGED artifacts
    /\ pwKeep

\* flush_all, lines 63-64: buffer_size = 0, Ok(()); add_game returns Ok too.
PwFlush63 ==
    /\ pw.pc = "l63"
    /\ pw' = [pw EXCEPT !.w.buffer_size = 0, !.pc = "idle", !.ret = "ok"]
    /\ UNCHANGED artifacts
    /\ pwKeep

InitWriter ==
    /\ ControlNew
    /\ DbEmpty
    /\ TxIdle
    /\ FsEmpty
    /\ archive = ArchiveA
    /\ ppc = "idle"
    /\ runs = 0
    /\ err = "none"
    /\ events = <<>>
    /\ loc = LocInit
    /\ hist = HistInit
    /\ flt = NoFilterCall
    /\ ps = NoParserCall
    /\ \E max \in WriterMaxes : pw = PwNew(max)

NextWriter ==
    \/ \E player \in Players, len \in TextLens : PwAddGame(player, len)
    \/ PwAdd48
    \/ PwFlushAll
    \/ PwFlush56
    \/ PwFlush57
    \/ PwFlush63

SpecWriter == InitWriter /\ [][NextWriter]_vars

(***************************************************************************)
(* run_with_sink (pipeline.rs) with download (download.rs), one step per    *)
(* statement that can fail, block or send.                                  *)
(***************************************************************************)

\* download.rs: the constants of the read loop.
TenMiB == 10485760
CheckWindow == 65536
BufferLen == 65536
ReportBytes == 1048576

Url == Urls[loc.idx]
Month == Urls[loc.idx]           \* extract_month(url)
Records == archive[Month]
Info == Records[loc.pos]         \* the record the parser returned last

\* config.min_full_moves * 2 is a u32 product: it wraps when overflow checks
\* are off (release profile) and panics when they are on (debug profile).
MulU32Overflows(a, b) == a * b >= U32Mod
WrappingMulU32(a, b) == (a * b) % U32Mod

\* is_valid_game (pipeline.rs:173-183), as it returns.
IsValidGame(info, config) ==
    /\ info.event = config.event_filter
    /\ \/ config.time_control_filter = <<>>
       \/ info.time_control = config.time_control_filter[1]
    /\ info.half_move_count >= WrappingMulU32(config.min_full_moves, 2)

\* What a call of is_valid_game can end in: the returned bool, or, when line
\* 182 is reached with an overflowing product, also a panic.
IsValidGameOutcomes(info, config) ==
    {IF IsValidGame(info, config) THEN "true" ELSE "false"} \cup
        IF /\ info.event = config.event_filter
           /\ \/ config.time_control_filter = <<>>
              \/ info.time_control = config.time_control_filter[1]
           /\ MulU32Overflows(config.min_full_moves, 2)
          THEN {"panic"}
          ELSE {}

\* *counts.entry(name).or_insert(0) += 1
Bump(c, name) ==
    [k \in (DOMAIN c) \cup {name} |->
        IF k = name THEN (IF name \in DOMAIN c THEN c[name] + 1 ELSE 1) ELSE c[k]]

\* Qualifying with `>` in place of `>=`.
Qualifying_Above(c) == {p \in DOMAIN c : c[p] > MinMonthlyGames}

\* lines 59-63: the players at or above min_monthly_games.
Qualifying(c) == {p \in DOMAIN c : c[p] >= MinMonthlyGames}

RECURSIVE SumOver(_, _)
SumOver(f, S) ==
    IF S = {} THEN 0
    ELSE LET x == CHOOSE y \in S : TRUE IN f[x] + SumOver(f, S \ {x})

\* update_player_counts as one call that succeeds: every (player, count) of
\* the mapping goes through both statements, then the commit.
RECURSIVE UpdatePlayerCounts(_, _, _, _)
UpdatePlayerCounts(db, month, cnt, todo) ==
    IF todo = {} THEN db
    ELSE LET p == CHOOSE x \in todo : TRUE IN
         UpdatePlayerCounts(
            [players |-> UpsertPlayerTotal(db.players, p, cnt[p]),
             monthly |-> InsertOrReplaceMonthly(db.monthly, p, month, cnt[p])],
            month, cnt, todo \ {p})

Send(e) == events' = Append(events, e)
Send2(e1, e2) == events' = Append(Append(events, e1), e2)

\* Fail that goes on with the final prune instead of returning.
Fail_GoesOn ==
    /\ err' = "error"
    /\ ppc' = "l103"
    /\ hist' = [hist EXCEPT !.failAt = ppc]
    /\ UNCHANGED <<archive, unitVars, runs, events, loc>>

\* A `?` that propagates an error out of run_with_sink.
Fail ==
    /\ err' = "error"
    /\ ppc' = "exit"
    /\ hist' = [hist EXCEPT !.failAt = ppc]
    /\ UNCHANGED <<archive, unitVars, runs, events, loc>>

keepCtl == UNCHANGED <<ctlVars, txVars>>
keepDb == UNCHANGED dbVars
keepFs == UNCHANGED fsVars

\* PipeAbort with `break` in place of `?`: the loop over the archives is
\* left, the function goes on.
PipeAbort_Break(site) ==
    /\ err' = "cancelled"
    /\ ppc' = "l103"
    /\ hist' = [hist EXCEPT !.abortAt = site]
    /\ wres' = "none"
    /\ UNCHANGED <<paused, cancelled, lockHeld, parked, wpc, cpc, ctlFn, ctlOps, obs>>
    /\ UNCHANGED <<dbVars, txVars, fsVars, archive, unitVars, runs, events, loc>>

\* sink.check()? reported cancellation: the error propagates out of
\* run_with_sink from the check site.
PipeAbort(site) ==
    /\ err' = "cancelled"
    /\ ppc' = "exit"
    /\ hist' = [hist EXCEPT !.abortAt = site]
    /\ wres' = "none"
    /\ UNCHANGED <<paused, cancelled, lockHeld, parked, wpc, cpc, ctlFn, ctlOps, obs>>
    /\ UNCHANGED <<dbVars, txVars, fsVars, archive, unitVars, runs, events, loc>>

\* sink.check()? at `site`: ChannelSink::check calls control.check(); the
\* worker goes on to `next` on Ok.
PipeCheck(site, next) ==
    /\ ppc = site
    /\ wpc = "out"
    /\ \/ /\ wres = "none"
          /\ CheckEnter
          /\ UNCHANGED <<paused, cancelled, lockHeld, parked, cpc, ctlFn, ctlOps>>
          /\ UNCHANGED nonCtl
       \/ /\ wres = "ok"
          /\ wres' = "none"
          /\ ppc' = next
          /\ UNCHANGED <<paused, cancelled, lockHeld, parked, wpc, cpc, ctlFn, ctlOps, obs>>
          /\ UNCHANGED <<dbVars, txVars, fsVars, archive, unitVars, runs, err, events, loc, hist>>
       \/ /\ wres = "cancelled"
          /\ PipeAbort(site)

\* StartPipeline that begins a run by emptying the output directory of the
\* frames earlier runs left.
StartPipeline_CleanOutput ==
    /\ ppc = "idle"
    /\ runs < MaxRuns
    /\ runs' = runs + 1
    /\ paused' = FALSE
    /\ cancelled' = FALSE
    /\ lockHeld' = FALSE
    /\ parked' = FALSE
    /\ wpc' = "out"
    /\ wres' = "none"
    /\ cpc' = "idle"
    /\ ctlFn' = "none"
    /\ ctlOps' = 0
    /\ obs' = ObsInit
    /\ ppc' = "l31"
    /\ err' = "none"
    /\ events' = <<>>
    /\ loc' = LocInit
    /\ hist' = [HistInit EXCEPT
                    !.earlier = IF hist.abortAt = "q262"
                                  THEN [month |-> Urls[loc.idx], artifacts |-> artifacts]
                                  ELSE @,
                    !.before = IF err = "ok"
                                 THEN [ok |-> TRUE, players |-> players, monthly |-> monthly,
                                       processed |-> processed, artifacts |-> artifacts]
                                 ELSE @]
    /\ artifacts' = [p \in Players |-> <<>>]
    /\ UNCHANGED <<dbVars, txVars, zst, zstEmpty, part, archive, unitVars>>

\* start_pipeline (tui/mod.rs:179-196): a new PipelineControl, a new channel,
\* the worker thread is spawned.
StartPipeline ==
    /\ ppc = "idle"
    /\ runs < MaxRuns
    /\ runs' = runs + 1
    /\ paused' = FALSE
    /\ cancelled' = FALSE
    /\ lockHeld' = FALSE
    /\ parked' = FALSE
    /\ wpc' = "out"
    /\ wres' = "none"
    /\ cpc' = "idle"
    /\ ctlFn' = "none"
    /\ ctlOps' = 0
    /\ obs' = ObsInit
    /\ ppc' = "l31"
    /\ err' = "none"
    /\ events' = <<>>
    /\ loc' = LocInit
    /\ hist' = [HistInit EXCEPT
                    !.earlier = IF hist.abortAt = "q262"
                                  THEN [month |-> Urls[loc.idx], artifacts |-> artifacts]
                                  ELSE @,
                    !.before = IF err = "ok"
                                 THEN [ok |-> TRUE, players |-> players, monthly |-> monthly,
                                       processed |-> processed, artifacts |-> artifacts]
                                 ELSE @]
    /\ UNCHANGED <<dbVars, txVars, fsVars, archive, unitVars>>

\* lines 31-35: create_dir_all twice, Database::open.
Run31 ==
    /\ ppc = "l31"
    /\ \/ Fail
       \/ /\ ppc' = "l37"
          /\ UNCHANGED <<archive, unitVars, runs, err, events, loc, hist>>
    /\ keepCtl /\ keepDb /\ keepFs

\* line 37: the for loop takes the next url, or ends.
Run37 ==
    /\ ppc = "l37"
    /\ IF loc.idx = Len(Urls)
         THEN /\ ppc' = "l103"
              /\ UNCHANGED <<loc, hist>>
         ELSE /\ ppc' = "l38"
              /\ loc' = [loc EXCEPT !.idx = @ + 1]
              /\ hist' = [hist EXCEPT !.snap =
                    [players |-> players, monthly |-> monthly, processed |-> processed,
                     artifacts |-> artifacts]]
    /\ UNCHANGED <<archive, unitVars, runs, err, events>>
    /\ keepCtl /\ keepDb /\ keepFs

\* line 38: sink.check()?
Run38 == PipeCheck("l38", "l40")

\* line 40: DatasetStarted
Run40 ==
    /\ ppc = "l40"
    /\ Send([t |-> "DatasetStarted", index |-> loc.idx - 1, total |-> Len(Urls)])
    /\ ppc' = "l42"
    /\ UNCHANGED <<archive, unitVars, runs, err, loc, hist>>
    /\ keepCtl /\ keepDb /\ keepFs

\* Run42 without the skip: the result of is_dataset_processed is not used.
Run42_NoSkip ==
    /\ ppc = "l42"
    /\ \/ Fail
       \/ /\ ppc' = "d11"
          /\ UNCHANGED <<archive, unitVars, runs, err, events, loc, hist>>
    /\ keepCtl /\ keepDb /\ keepFs

\* Run42 without `continue`: after DatasetSkipped the iteration goes on.
Run42_NoContinue ==
    /\ ppc = "l42"
    /\ \/ Fail
       \/ /\ IF Url \in processed
               THEN /\ Send([t |-> "DatasetSkipped", name |-> Url])
                    /\ ppc' = "d11"
                    /\ hist' = [hist EXCEPT !.skipped = @ \cup {Url}]
               ELSE /\ ppc' = "d11"
                    /\ UNCHANGED <<events, hist>>
          /\ UNCHANGED <<archive, unitVars, runs, err, loc>>
    /\ keepCtl /\ keepDb /\ keepFs

\* lines 42-45: is_dataset_processed(url)?; a processed archive is skipped.
Run42 ==
    /\ ppc = "l42"
    /\ \/ Fail
       \/ /\ IF Url \in processed
               THEN /\ Send([t |-> "DatasetSkipped", name |-> Url])
                    /\ ppc' = "l37"
                    /\ hist' = [hist EXCEPT !.skipped = @ \cup {Url}]
               ELSE /\ ppc' = "d11"
                    /\ UNCHANGED <<events, hist>>
          /\ UNCHANGED <<archive, unitVars, runs, err, loc>>
    /\ keepCtl /\ keepDb /\ keepFs

\* download.rs:11-14: an existing non-empty destination is not downloaded again.
Dl11 ==
    /\ ppc = "d11"
    /\ IF Month \in zst
         THEN /\ Send([t |-> "Log", msg |-> "Already downloaded"])
              /\ ppc' = "l52"
         ELSE /\ ppc' = "d16"
              /\ UNCHANGED events
    /\ UNCHANGED <<archive, unitVars, runs, err, loc, hist>>
    /\ keepCtl /\ keepDb /\ keepFs

\* download.rs:16-39: create_dir_all, the HTTP request, DownloadStarted.
Dl16 ==
    /\ ppc = "d16"
    /\ \/ Fail
       \/ /\ Send([t |-> "Log", msg |-> "Downloading"])
          /\ err' = "error"
          /\ ppc' = "exit"
          /\ hist' = [hist EXCEPT !.failAt = ppc]
          /\ UNCHANGED <<archive, unitVars, runs, loc>>
       \/ /\ Send2([t |-> "Log", msg |-> "Downloading"],
                   [t |-> "DownloadStarted", total_bytes |-> ZstSize(Month)])
          /\ ppc' = "d42"
          /\ UNCHANGED <<archive, unitVars, runs, err, loc, hist>>
    /\ keepCtl /\ keepDb /\ keepFs

\* DlLoopHead with a window one byte narrower than the read buffer.
DlLoopHead_NarrowWindow(n) == IF n % TenMiB < CheckWindow - 1 THEN "d50" ELSE "d53"

\* The loop head at download.rs:49: the check is made when the byte count is
\* in the first 64 KiB of a 10 MiB stretch.
DlLoopHead(n) == IF n % TenMiB < CheckWindow THEN "d50" ELSE "d53"

\* Dl42 that creates the destination itself, not a .part file beside it.
Dl42_InPlace ==
    /\ ppc = "d42"
    /\ \/ Fail /\ keepFs
       \/ /\ zstEmpty' = zstEmpty \cup {Month}
          /\ loc' = [loc EXCEPT !.downloaded = 0, !.last_report = 0]
          /\ ppc' = DlLoopHead(0)
          /\ hist' = [hist EXCEPT !.dlChecked = 0]
          /\ UNCHANGED <<zst, part, artifacts, archive, unitVars, runs, err, events>>
    /\ keepCtl /\ keepDb

\* download.rs:41-46: the .part file is created (truncated if it exists).
Dl42 ==
    /\ ppc = "d42"
    /\ \/ Fail /\ keepFs
       \/ /\ part' = part \cup {Month}
          /\ loc' = [loc EXCEPT !.downloaded = 0, !.last_report = 0]
          /\ ppc' = DlLoopHead(0)
          /\ hist' = [hist EXCEPT !.dlChecked = 0]
          /\ UNCHANGED <<zst, zstEmpty, artifacts, archive, unitVars, runs, err, events>>
    /\ keepCtl /\ keepDb

\* download.rs:50: sink.check()?
Dl50 == PipeCheck("d50", "d53")

\* The sizes reader.read may return with `left` bytes to come: a full buffer
\* (or all that is left), or, for the first read, a short read of one byte
\* or of one byte less than the buffer.
ReadSizes(done, left) ==
    {IF left < BufferLen THEN left ELSE BufferLen}
      \cup (IF done = 0 THEN {1} ELSE {})
      \cup (IF done = 0 /\ left >= BufferLen THEN {BufferLen - 1} ELSE {})

\* download.rs:53-63: one read of at most 64 KiB, written to the .part file.
Dl53 ==
    /\ ppc = "d53"
    /\ \/ Fail
       \/ /\ loc.downloaded = ZstSize(Month)
          /\ ppc' = "d66"
          /\ UNCHANGED <<archive, unitVars, runs, err, events, loc, hist>>
       \/ /\ loc.downloaded < ZstSize(Month)
          /\ \E n \in ReadSizes(loc.downloaded, ZstSize(Month) - loc.downloaded) :
               /\ LET d == loc.downloaded + n IN
                    IF d - loc.last_report > ReportBytes
                      THEN /\ Send([t |-> "DownloadProgress", bytes_read |-> d])
                           /\ loc' = [loc EXCEPT !.downloaded = d, !.last_report = d]
                      ELSE /\ UNCHANGED events
                           /\ loc' = [loc EXCEPT !.downloaded = d]
               /\ ppc' = DlLoopHead(loc.downloaded + n)
               /\ hist' = [hist EXCEPT !.dlChecked =
                             IF DlLoopHead(loc.downloaded + n) = "d50"
                               THEN loc.downloaded + n ELSE @]
          /\ UNCHANGED <<archive, unitVars, runs, err>>
    /\ keepCtl /\ keepDb /\ keepFs

\* download.rs:66-71: flush, rename the .part file, which holds the
\* `downloaded` bytes written to it, to the destination (replacing it).
Dl66 ==
    /\ ppc = "d66"
    /\ \/ Fail /\ keepFs
       \/ /\ part' = part \ {Month}
          /\ zst' = IF loc.downloaded > 0 THEN zst \cup {Month} ELSE zst \ {Month}
          /\ zstEmpty' = IF loc.downloaded > 0 THEN zstEmpty \ {Month}
                                               ELSE zstEmpty \cup {Month}
          /\ hist' = [hist EXCEPT
                !.zstBytes = [m \in (DOMAIN @) \cup {Month} |->
                                 IF m = Month THEN loc.downloaded ELSE @[m]],
                !.dlChecked = 0]
          /\ Send([t |-> "DownloadComplete", size_bytes |-> loc.downloaded])
          /\ ppc' = "l52"
          /\ UNCHANGED <<artifacts, archive, unitVars, runs, err, loc>>
    /\ keepCtl /\ keepDb

\* line 52: sink.check()?
Run52 == PipeCheck("l52", "l55")

\* line 55: Pass1Started
Run55 ==
    /\ ppc = "l55"
    /\ Send([t |-> "Pass1Started"])
    /\ ppc' = "p190"
    /\ UNCHANGED <<archive, unitVars, runs, err, loc, hist>>
    /\ keepCtl /\ keepDb /\ keepFs

\* pass1_count, lines 190-194: open_zst_reader, the parser, the counters.
Pass1Open ==
    /\ ppc = "p190"
    /\ \/ Fail
       \/ /\ loc' = [loc EXCEPT !.pos = 0, !.scanned = 0, !.valid = 0,
                                !.player_counts = <<>>]
          /\ hist' = [hist EXCEPT !.sinceCheck = 0, !.progAt = {}]
          /\ ppc' = "p196"
          /\ UNCHANGED <<archive, unitVars, runs, err, events>>
    /\ keepCtl /\ keepDb /\ keepFs

\* pass1_count, lines 196-204: next_info()?, scanned += 1, the progress event.
Pass1Next ==
    /\ ppc = "p196"
    /\ \/ Fail
       \/ /\ loc.pos = Len(Records)
          /\ ppc' = "p222"
          /\ UNCHANGED <<archive, unitVars, runs, err, events, loc, hist>>
       \/ /\ loc.pos < Len(Records)
          /\ loc' = [loc EXCEPT !.pos = @ + 1, !.scanned = @ + 1]
          /\ IF (loc.scanned + 1) % ProgressEvery = 0
               THEN Send([t |-> "Pass1Progress", games_scanned |-> loc.scanned + 1,
                          valid_games |-> loc.valid,
                          unique_players |-> Cardinality(DOMAIN loc.player_counts)])
               ELSE UNCHANGED events
          /\ ppc' = IF (loc.scanned + 1) % CheckEvery = 0 THEN "p206" ELSE "p209"
          /\ hist' = [hist EXCEPT
                        !.sinceCheck = IF (loc.scanned + 1) % CheckEvery = 0 THEN 0 ELSE @ + 1,
                        !.progAt = IF (loc.scanned + 1) % ProgressEvery = 0
                                     THEN @ \cup {loc.pos + 1} ELSE @]
          /\ UNCHANGED <<archive, unitVars, runs, err>>
    /\ keepCtl /\ keepDb /\ keepFs

\* pass1_count, line 206: sink.check()?
Pass1Check == PipeCheck("p206", "p209")

\* pass1_count, lines 209-219: the filter, then one count per named side.
Pass1Count ==
    /\ ppc = "p209"
    /\ IF ~IsValidGame(Info, Config)
         THEN UNCHANGED loc
         ELSE LET c1 == IF Info.white # "" THEN Bump(loc.player_counts, Info.white)
                        ELSE loc.player_counts
                  c2 == IF Info.black # "" THEN Bump(c1, Info.black) ELSE c1
              IN loc' = [loc EXCEPT !.valid = @ + 1, !.player_counts = c2]
    /\ ppc' = "p196"
    /\ UNCHANGED <<archive, unitVars, runs, err, events, hist>>
    /\ keepCtl /\ keepDb /\ keepFs

\* pass1_count, lines 222-227: the last progress event; counts are returned.
Pass1End ==
    /\ ppc = "p222"
    /\ Send([t |-> "Pass1Progress", games_scanned |-> loc.scanned,
             valid_games |-> loc.valid,
             unique_players |-> Cardinality(DOMAIN loc.player_counts)])
    /\ ppc' = "l58"
    /\ UNCHANGED <<archive, unitVars, runs, err, loc, hist>>
    /\ keepCtl /\ keepDb /\ keepFs

\* lines 58-75: the qualifying set, Pass1Complete.
Run58 ==
    /\ ppc = "l58"
    /\ LET c == loc.player_counts
           total_valid == SumOver(c, DOMAIN c)
           q == Qualifying(c)
       IN /\ loc' = [loc EXCEPT !.qualifying = q]
          /\ Send([t |-> "Pass1Complete",
                   total_scanned |-> SumOver(c, DOMAIN c) + total_valid,
                   valid_games |-> total_valid,
                   qualifying_players |-> Cardinality(q),
                   qualifying_games |-> SumOver(c, q)])
    /\ ppc' = "l76"
    /\ UNCHANGED <<archive, unitVars, runs, err, hist>>
    /\ keepCtl /\ keepDb /\ keepFs

\* Run76 that enters pass 2 whatever the qualifying set.
Run76_AlwaysPass2 == PipeCheck("l76", "l80")

\* line 76: sink.check()?; line 78: pass 2 only for a non-empty qualifying set.
Run76 == PipeCheck("l76", IF loc.qualifying # {} THEN "l80" ELSE "l93")

\* lines 80-81: Pass2Started, PlayerWriter::new
Run80 ==
    /\ ppc = "l80"
    /\ Send([t |-> "Pass2Started"])
    /\ loc' = [loc EXCEPT !.writer = NoWriter]
    /\ ppc' = "q237"
    /\ UNCHANGED <<archive, unitVars, runs, err, hist>>
    /\ keepCtl /\ keepDb /\ keepFs

\* pass2_extract, lines 237-239: the archive is opened again.
Pass2Open ==
    /\ ppc = "q237"
    /\ \/ Fail
       \/ /\ loc' = [loc EXCEPT !.pos = 0, !.extracted = 0]
          /\ hist' = [hist EXCEPT !.added = <<>>, !.sinceCheck = 0, !.progAt = {}]
          /\ ppc' = "q241"
          /\ UNCHANGED <<archive, unitVars, runs, err, events>>
    /\ keepCtl /\ keepDb /\ keepFs

\* pass2_extract, lines 241-244: next_game()?; a record failing the filter
\* is passed over (continue).
Pass2Next ==
    /\ ppc = "q241"
    /\ \/ Fail
       \/ /\ loc.pos = Len(Records)
          /\ ppc' = "l83"
          /\ UNCHANGED <<archive, unitVars, runs, err, events, loc, hist>>
       \/ /\ loc.pos < Len(Records)
          /\ loc' = [loc EXCEPT !.pos = @ + 1]
          /\ ppc' = IF IsValidGame(Records[loc.pos + 1], Config) THEN "q249" ELSE "q241"
          /\ hist' = [hist EXCEPT !.sinceCheck = @ + 1]
          /\ UNCHANGED <<archive, unitVars, runs, err, events>>
    /\ keepCtl /\ keepDb /\ keepFs

\* writer.add_game(player, raw_pgn)? for the record at hand, then
\* extracted += 1 (lines 249-252 for White, 253-256 for Black).
Pass2Add(player, next) ==
    LET w1 == AddToBuffer(loc.writer, player, <<Month, loc.pos>>, Info.len) IN
    IF ~NeedsFlush(w1)
      THEN /\ loc' = [loc EXCEPT !.writer = w1, !.extracted = @ + 1]
           /\ hist' = [hist EXCEPT !.added = Bump(@, player)]
           /\ ppc' = next
           /\ UNCHANGED <<archive, unitVars, runs, err, events>>
           /\ keepFs
      ELSE \/ /\ artifacts' = FlushAllArtifacts(w1.buffer, artifacts)
              /\ loc' = [loc EXCEPT !.writer = NoWriter, !.extracted = @ + 1]
              /\ hist' = [hist EXCEPT !.added = Bump(@, player)]
              /\ ppc' = next
              /\ UNCHANGED <<zst, zstEmpty, part, archive, unitVars, runs, err, events>>
           \/ /\ artifacts' \in FlushFailArtifacts(w1.buffer, artifacts)
              /\ Fail
              /\ UNCHANGED <<zst, zstEmpty, part>>

\* pass2_extract, lines 246-252: White.
Pass2White ==
    /\ ppc = "q249"
    /\ IF Info.white \in loc.qualifying
         THEN Pass2Add(Info.white, "q253")
         ELSE /\ ppc' = "q253"
              /\ UNCHANGED <<archive, unitVars, runs, err, events, loc, hist>>
              /\ keepFs
    /\ keepCtl /\ keepDb

\* Pass2Black as the `else` of White's `if`: a record is written under one
\* name at most.
Pass2Black_ElseIf ==
    /\ ppc = "q253"
    /\ IF Info.black \in loc.qualifying /\ Info.white \notin loc.qualifying
         THEN Pass2Add(Info.black, "q258")
         ELSE /\ ppc' = "q258"
              /\ UNCHANGED <<archive, unitVars, runs, err, events, loc, hist>>
              /\ keepFs
    /\ keepCtl /\ keepDb

\* pass2_extract, lines 247, 253-256: Black.
Pass2Black ==
    /\ ppc = "q253"
    /\ IF Info.black \in loc.qualifying
         THEN Pass2Add(Info.black, "q258")
         ELSE /\ ppc' = "q258"
              /\ UNCHANGED <<archive, unitVars, runs, err, events, loc, hist>>
              /\ keepFs
    /\ keepCtl /\ keepDb

\* pass2_extract, lines 258-261: the progress event and the check test.
Pass2Progress ==
    /\ ppc = "q258"
    /\ IF loc.extracted % ProgressEvery = 0 /\ loc.extracted > 0
         THEN Send([t |-> "Pass2Progress", games_extracted |-> loc.extracted])
         ELSE UNCHANGED events
    /\ ppc' = IF loc.extracted % CheckEvery = 0 THEN "q262" ELSE "q241"
    /\ hist' = [hist EXCEPT
                  !.sinceCheck = IF loc.extracted % CheckEvery = 0 THEN 0 ELSE @,
                  !.progAt = IF loc.extracted % ProgressEvery = 0 /\ loc.extracted > 0
                               THEN @ \cup {loc.pos} ELSE @]
    /\ UNCHANGED <<archive, unitVars, runs, err, loc>>
    /\ keepCtl /\ keepDb /\ keepFs

\* pass2_extract, line 262: sink.check()?
Pass2Check == PipeCheck("q262", "q241")

\* lines 83-84: writer.flush_all()?, Pass2Complete
Run83 ==
    /\ ppc = "l83"
    /\ \/ /\ artifacts' = FlushAllArtifacts(loc.writer.buffer, artifacts)
          /\ loc' = [loc EXCEPT !.writer = NoWriter]
          /\ Send([t |-> "Pass2Complete", total_extracted |-> loc.extracted])
          /\ ppc' = "l90"
          /\ UNCHANGED <<archive, unitVars, runs, err, hist>>
       \/ /\ NonEmptyBuffers(loc.writer.buffer) # {}
          /\ artifacts' \in FlushFailArtifacts(loc.writer.buffer, artifacts)
          /\ Fail
    /\ UNCHANGED <<zst, zstEmpty, part>>
    /\ keepCtl /\ keepDb

\* lines 86-90: the qualifying players' counts go to update_player_counts.
Run90 ==
    /\ ppc = "l90"
    /\ \/ Fail /\ keepDb
       \/ /\ LET qc == [p \in loc.qualifying |-> loc.player_counts[p]]
                 db == UpdatePlayerCounts([players |-> players, monthly |-> monthly],
                                          Month, qc, DOMAIN qc)
             IN /\ players' = db.players
                /\ monthly' = db.monthly
          /\ ppc' = "l93"
          /\ UNCHANGED <<processed, archive, unitVars, runs, err, events, loc, hist>>
    /\ keepCtl /\ keepFs

\* Run93 that does not record the archive.
Run93_NoMark ==
    /\ ppc = "l93"
    /\ \/ Fail /\ keepDb
       \/ /\ ppc' = "l95"
          /\ UNCHANGED <<archive, unitVars, runs, err, events, loc, hist>>
          /\ keepDb
    /\ keepCtl /\ keepFs

\* line 93: mark_dataset_processed(url)?
Run93 ==
    /\ ppc = "l93"
    /\ \/ Fail /\ keepDb
       \/ /\ processed' = processed \cup {Url}
          /\ ppc' = "l95"
          /\ UNCHANGED <<players, monthly, archive, unitVars, runs, err, events, loc, hist>>
    /\ keepCtl /\ keepFs

\* lines 95-97: the local compressed file is removed if it exists.
Run95 ==
    /\ ppc = "l95"
    /\ \/ /\ Month \in zst \cup zstEmpty
          /\ Fail
          /\ keepFs
       \/ /\ zst' = zst \ {Month}
          /\ zstEmpty' = zstEmpty \ {Month}
          /\ ppc' = "l99"
          /\ UNCHANGED <<part, artifacts, archive, unitVars, runs, err, events, loc, hist>>
    /\ keepCtl /\ keepDb

\* line 99: DatasetComplete; the loop goes on.
Run99 ==
    /\ ppc = "l99"
    /\ Send([t |-> "DatasetComplete"])
    /\ ppc' = "l37"
    /\ UNCHANGED <<archive, unitVars, runs, err, loc, hist>>
    /\ keepCtl /\ keepDb /\ keepFs

\* lines 103-106: get_players_below_total, PruneStarted.
Run103 ==
    /\ ppc = "l103"
    /\ \/ Fail
       \/ /\ LET below == PlayersBelowTotal(players, MinTotalGames) IN
               /\ loc' = [loc EXCEPT !.to_remove = below]
               /\ Send([t |-> "PruneStarted", to_remove |-> Cardinality(below)])
          /\ hist' = [hist EXCEPT !.prune =
                [players |-> players, monthly |-> monthly, artifacts |-> artifacts]]
          /\ ppc' = "l107"
          /\ UNCHANGED <<archive, unitVars, runs, err>>
    /\ keepCtl /\ keepDb /\ keepFs

\* Run107 that leaves the files of the pruned players on disk.
Run107_KeepFiles ==
    /\ ppc = "l107"
    /\ IF loc.to_remove = {}
         THEN /\ ppc' = "l110"
              /\ UNCHANGED <<archive, unitVars, runs, err, events, loc, hist>>
              /\ keepFs
         ELSE \/ Fail /\ keepFs
              \/ \E name \in loc.to_remove :
                   /\ loc' = [loc EXCEPT !.to_remove = @ \ {name}]
                   /\ UNCHANGED <<archive, unitVars, ppc, runs, err, events, hist>>
                   /\ keepFs
    /\ keepCtl /\ keepDb

\* lines 107-109: writer.delete_player(name)? for each name.
Run107 ==
    /\ ppc = "l107"
    /\ IF loc.to_remove = {}
         THEN /\ ppc' = "l110"
              /\ UNCHANGED <<archive, unitVars, runs, err, events, loc, hist>>
              /\ keepFs
         ELSE \/ Fail /\ keepFs
              \/ \E name \in loc.to_remove :
                   /\ artifacts' = [artifacts EXCEPT ![name] = <<>>]
                   /\ loc' = [loc EXCEPT !.to_remove = @ \ {name}]
                   /\ UNCHANGED <<zst, zstEmpty, part, archive, unitVars, ppc, runs, err, events, hist>>
    /\ keepCtl /\ keepDb

\* line 110: remove_players_below_total (one transaction).
Run110 ==
    /\ ppc = "l110"
    /\ \/ Fail /\ keepDb
       \/ /\ monthly' = DeleteMonthlyBelow(monthly, players, MinTotalGames)
          /\ players' = DeletePlayersBelow(players, MinTotalGames)
          /\ loc' = [loc EXCEPT !.removed =
                        Cardinality(PlayersBelowTotal(players, MinTotalGames))]
          /\ ppc' = "l111"
          /\ UNCHANGED <<processed, archive, unitVars, runs, err, events, hist>>
    /\ keepCtl /\ keepFs

\* line 111: cleanup_empty_dirs
Run111 ==
    /\ ppc = "l111"
    /\ \/ Fail
       \/ /\ ppc' = "l113"
          /\ UNCHANGED <<archive, unitVars, runs, err, events, loc, hist>>
    /\ keepCtl /\ keepDb /\ keepFs

\* lines 113-120: get_total_qualifying_players, PruneComplete, Finished, Ok(()).
Run113 ==
    /\ ppc = "l113"
    /\ \/ Fail
       \/ /\ Send2([t |-> "PruneComplete",
                    remaining |-> TotalQualifyingPlayers(players, MinTotalGames),
                    removed |-> loc.removed],
                   [t |-> "Finished"])
          /\ err' = "ok"
          /\ ppc' = "exit"
          /\ UNCHANGED <<archive, unitVars, runs, loc, hist>>
    /\ keepCtl /\ keepDb /\ keepFs

\* tui/mod.rs:190-194: the worker thread reports the result and ends.
ThreadExit ==
    /\ ppc = "exit"
    /\ IF err = "ok"
         THEN Send([t |-> "Finished"])
         ELSE Send([t |-> "Error",
                    msg |-> IF err = "cancelled" THEN "Cancelled by user" ELSE "error"])
    /\ ppc' = "idle"
    /\ loc' = [LocInit EXCEPT !.idx = loc.idx]
    /\ UNCHANGED <<archive, unitVars, runs, err, hist>>
    /\ keepCtl /\ keepDb /\ keepFs

\* The controller acts on the control of the run in progress (app.control),
\* at any moment of the run.
RunCtlStep ==
    /\ ppc \notin {"idle", "exit"}
    /\ CtlStep

Init ==
    /\ ControlNew
    /\ DbEmpty
    /\ TxIdle
    /\ FsEmpty
    /\ NoRun

Next ==
    \/ StartPipeline
    \/ Run31
    \/ Run37
    \/ Run38
    \/ Run40
    \/ Run42
    \/ Dl11
    \/ Dl16
    \/ Dl42
    \/ Dl50
    \/ Dl53
    \/ Dl66
    \/ Run52
    \/ Run55
    \/ Pass1Open
    \/ Pass1Next
    \/ Pass1Check
    \/ Pass1Count
    \/ Pass1End
    \/ Run58
    \/ Run76
    \/ Run80
    \/ Pass2Open
    \/ Pass2Next
    \/ Pass2White
    \/ Pass2Black
    \/ Pass2Progress
    \/ Pass2Check
    \/ Run83
    \/ Run90
    \/ Run93
    \/ Run95
    \/ Run99
    \/ Run103
    \/ Run107
    \/ Run110
    \/ Run111
    \/ Run113
    \/ ThreadExit
    \/ CheckStep
    \/ RunCtlStep

Spec == Init /\ [][Next]_vars

(***************************************************************************)
(* SpecDl: download() called for the first URL, again and again as the runs *)
(* of one output_dir do, with the controller alongside.  The body behind    *)
(* the URL is an archive's or empty.                                        *)
(***************************************************************************)
InitDl ==
    /\ ControlNew
    /\ DbEmpty
    /\ TxIdle
    /\ FsEmpty
    /\ flt = NoFilterCall
    /\ pw = NoWriterCall
    /\ ps = NoParserCall
    /\ archive \in {ArchiveA, ArchiveEmpty}
    /\ ppc = "d11"
    /\ runs = 1
    /\ err = "none"
    /\ events = <<>>
    /\ loc = [LocInit EXCEPT !.idx = 1]
    /\ hist = HistInit

\* download has returned (Ok at "l52", an error at "exit"); a later run,
\* with a PipelineControl of its own, calls it for the same URL.
DlAgain ==
    /\ ppc \in {"l52", "exit"}
    /\ cpc = "idle"
    /\ runs < MaxRuns
    /\ runs' = runs + 1
    /\ paused' = FALSE
    /\ cancelled' = FALSE
    /\ lockHeld' = FALSE
    /\ parked' = FALSE
    /\ wpc' = "out"
    /\ wres' = "none"
    /\ cpc' = "idle"
    /\ ctlFn' = "none"
    /\ ctlOps' = 0
    /\ obs' = ObsInit
    /\ ppc' = "d11"
    /\ err' = "none"
    /\ events' = <<>>
    /\ loc' = [LocInit EXCEPT !.idx = 1]
    /\ UNCHANGED <<dbVars, txVars, fsVars, archive, unitVars, hist>>

NextDl ==
    \/ Dl11
    \/ Dl16
    \/ Dl42
    \/ Dl50
    \/ Dl53
    \/ Dl66
    \/ CheckStep
    \/ RunCtlStep
    \/ DlAgain

SpecDl == InitDl /\ [][NextDl]_vars

(***************************************************************************)
(* SpecDlLoop: one call of download() for a body longer than 10 MiB, read   *)
(* in full buffers after a first read of any of the sizes of ReadSizes,     *)
(* with the controller alongside.                                           *)
(***************************************************************************)
InitDlLoop ==
    /\ ControlNew
    /\ DbEmpty
    /\ TxIdle
    /\ FsEmpty
    /\ flt = NoFilterCall
    /\ pw = NoWriterCall
    /\ ps = NoParserCall
    /\ archive = ArchiveBig
    /\ ppc = "d11"
    /\ runs = 1
    /\ err = "none"
    /\ events = <<>>
    /\ loc = [LocInit EXCEPT !.idx = 1]
    /\ hist = HistInit

NextDlLoop ==
    \/ Dl11
    \/ Dl16
    \/ Dl42
    \/ Dl50
    \/ Dl53
    \/ Dl66
    \/ CheckStep
    \/ RunCtlStep

SpecDlLoop == InitDlLoop /\ [][NextDlLoop]_vars

(***************************************************************************)
(* SpecFilter: is_valid_game called on any record under any configuration.  *)
(***************************************************************************)

\* Half-move counts and minimum full-move counts around the thresholds; 128
\* stands for 2^31, the least u32 whose double overflows.
HalfMoveCounts == {0, 1, 2, 3, 59, 60, 61}
FullMoveCounts == {0, 1, 30, 128}

FilterInfos ==
    [event : {"blitz", "Blitz", "bullet"}, white : {"al"}, black : {"bo"},
     time_control : {"300+0", "180+0"}, half_move_count : HalfMoveCounts, len : {2}]

FilterConfigs ==
    [event_filter : {"blitz"}, time_control_filter : {<<>>, <<"300+0">>},
     min_full_moves : FullMoveCounts]

\* is_valid_game(&info, config) is called and ends.
FilterCall ==
    /\ flt.ret = "none"
    /\ \E r \in IsValidGameOutcomes(flt.info, flt.config) :
          flt' = [flt EXCEPT !.ret = r]
    /\ UNCHANGED <<ctlVars, dbVars, txVars, fsVars>>
    /\ UNCHANGED <<archive, pw, ps, ppc, runs, err, events, loc, hist>>

InitFilter ==
    /\ ControlNew
    /\ DbEmpty
    /\ TxIdle
    /\ FsEmpty
    /\ archive = ArchiveA
    /\ ppc = "idle"
    /\ runs = 0
    /\ err = "none"
    /\ events = <<>>
    /\ loc = LocInit
    /\ hist = HistInit
    /\ pw = NoWriterCall
    /\ ps = NoParserCall
    /\ flt \in [info : FilterInfos, config : FilterConfigs, ret : {"none"}]

NextFilter == FilterCall

SpecFilter == InitFilter /\ [][NextFilter]_vars

(***************************************************************************)
(* PgnParser (parser.rs).  A line is what BufRead::read_line puts into      *)
(* line_buf: optional leading white space, a body, and a line ending.  The  *)
(* body is nothing (a blank line), a tag `[key rest]` containing a double   *)
(* quote, or any other text with `clk` occurrences of "[%clk".              *)
(***************************************************************************)
Line(lead, t, key, value, quoted, clk, eol) ==
    [lead |-> lead, t |-> t, key |-> key, value |-> value, quoted |-> quoted,
     clk |-> clk, eol |-> eol]

\* The lines a stream is made of: a blank line (white space and CR LF), two
\* Event tags, a White tag, a tag with another key, and two lines of moves
\* with one and two clock markers.  `quoted` is FALSE for a tag whose rest is
\* not a value between two double quotes.
ParserLines ==
    { Line(TRUE, "empty", "", "", FALSE, 0, "crlf"),
      Line(FALSE, "tag", "Event", "blitz", TRUE, 0, "lf"),
      Line(TRUE, "tag", "Event", "rapid", TRUE, 0, "crlf"),
      Line(FALSE, "tag", "White", "al", TRUE, 0, "lf"),
      Line(FALSE, "tag", "Site", "x", TRUE, 0, "lf"),
      Line(FALSE, "text", "", "", FALSE, 1, "lf"),
      Line(TRUE, "text", "", "", FALSE, 2, "crlf") }

\* line_buf.trim().is_empty() (lines 77-79, 163-166)
IsBlank(line) == line.t = "empty"

\* is_header (lines 98, 190): '[' first, ']' last, a '"' inside.
IsHeader(line) == line.t = "tag"

\* next_game, line 163, then push_str(line); push('\n'): the line ending is
\* normalised, the leading white space is kept.
RawLine(line) == [line EXCEPT !.eol = "lf"]

\* raw.push('\n') alone: an empty line of the raw text.
RawNewline == Line(FALSE, "empty", "", "", FALSE, 0, "lf")

\* The locals of next_info and next_game (lines 55-60, 136-142).
LocalsNew ==
    [state |-> "BetweenGames", event |-> "", white |-> "", black |-> "",
     time_control |-> "", half_moves |-> 0, raw |-> <<>>]

\* ExtractHeaderInto for which a later line adds to the field instead of
\* replacing it: the first value stays in front.
ExtractHeaderInto_KeepFirst(l, line) ==
    IF ~line.quoted THEN l
    ELSE IF line.key = "Event" THEN [l EXCEPT !.event = IF @ = "" THEN line.value ELSE @]
    ELSE IF line.key = "White" THEN [l EXCEPT !.white = IF @ = "" THEN line.value ELSE @]
    ELSE IF line.key = "Black" THEN [l EXCEPT !.black = IF @ = "" THEN line.value ELSE @]
    ELSE IF line.key = "TimeControl"
           THEN [l EXCEPT !.time_control = IF @ = "" THEN line.value ELSE @]
    ELSE l

\* extract_header_into (lines 238-261): nothing changes unless the rest is a
\* quoted value and the key is one of the four.
ExtractHeaderInto(l, line) ==
    IF ~line.quoted THEN l
    ELSE IF line.key = "Event" THEN [l EXCEPT !.event = line.value]
    ELSE IF line.key = "White" THEN [l EXCEPT !.white = line.value]
    ELSE IF line.key = "Black" THEN [l EXCEPT !.black = line.value]
    ELSE IF line.key = "TimeControl" THEN [l EXCEPT !.time_control = line.value]
    ELSE l

\* count_clk (lines 264-266)
CountClk(line) == line.clk

\* What one iteration of the loop does with the line read: the locals after
\* it, whether the call returns Some, and whether the line is pushed back.
Iter(l, ret, push) == [l |-> l, ret |-> ret, push |-> push]

\* NextInfoBody that drops the line it ends a record on instead of keeping
\* it in pending_line.
NextInfoBody_NoPending(l, line) ==
    IF IsBlank(line)
      THEN IF l.state = "InMoves" THEN Iter(l, TRUE, FALSE)
           ELSE IF l.state = "InHeaders" THEN Iter([l EXCEPT !.state = "InMoves"], FALSE, FALSE)
           ELSE Iter(l, FALSE, FALSE)
    ELSE IF l.state = "BetweenGames"
      THEN IF IsHeader(line)
             THEN Iter(ExtractHeaderInto([l EXCEPT !.state = "InHeaders"], line), FALSE, FALSE)
             ELSE Iter(l, FALSE, FALSE)
    ELSE IF l.state = "InHeaders"
      THEN IF IsHeader(line)
             THEN Iter(ExtractHeaderInto(l, line), FALSE, FALSE)
             ELSE Iter([l EXCEPT !.state = "InMoves", !.half_moves = @ + CountClk(line)],
                       FALSE, FALSE)
    ELSE IF IsHeader(line)
      THEN Iter(l, TRUE, FALSE)
      ELSE Iter([l EXCEPT !.half_moves = @ + CountClk(line)], FALSE, FALSE)

\* NextInfoBody that does not count the clock markers of a move line that
\* directly follows the headers, as if next_info had its own state machine.
NextInfoBody_OwnCounting(l, line) ==
    IF IsBlank(line)
      THEN IF l.state = "InMoves" THEN Iter(l, TRUE, FALSE)
           ELSE IF l.state = "InHeaders" THEN Iter([l EXCEPT !.state = "InMoves"], FALSE, FALSE)
           ELSE Iter(l, FALSE, FALSE)
    ELSE IF l.state = "BetweenGames"
      THEN IF IsHeader(line)
             THEN Iter(ExtractHeaderInto([l EXCEPT !.state = "InHeaders"], line), FALSE, FALSE)
             ELSE Iter(l, FALSE, FALSE)
    ELSE IF l.state = "InHeaders"
      THEN IF IsHeader(line)
             THEN Iter(ExtractHeaderInto(l, line), FALSE, FALSE)
             ELSE Iter([l EXCEPT !.state = "InMoves"], FALSE, FALSE)
    ELSE IF IsHeader(line)
      THEN Iter(l, TRUE, TRUE)
      ELSE Iter([l EXCEPT !.half_moves = @ + CountClk(line)], FALSE, FALSE)

\* next_info, lines 77-130: the loop body after a successful read_line.
NextInfoBody(l, line) ==
    IF IsBlank(line)
      THEN IF l.state = "InMoves" THEN Iter(l, TRUE, FALSE)
           ELSE IF l.state = "InHeaders" THEN Iter([l EXCEPT !.state = "InMoves"], FALSE, FALSE)
           ELSE Iter(l, FALSE, FALSE)
    ELSE IF l.state = "BetweenGames"
      THEN IF IsHeader(line)
             THEN Iter(ExtractHeaderInto([l EXCEPT !.state = "InHeaders"], line), FALSE, FALSE)
             ELSE Iter(l, FALSE, FALSE)
    ELSE IF l.state = "InHeaders"
      THEN IF IsHeader(line)
             THEN Iter(ExtractHeaderInto(l, line), FALSE, FALSE)
             ELSE Iter([l EXCEPT !.state = "InMoves", !.half_moves = @ + CountClk(line)],
                       FALSE, FALSE)
    ELSE IF IsHeader(line)
      THEN Iter(l, TRUE, TRUE)
      ELSE Iter([l EXCEPT !.half_moves = @ + CountClk(line)], FALSE, FALSE)

\* NextGameBody that does not count the clock markers of a move line that
\* directly follows the headers.
NextGameBody_FirstMoveUncounted(l, line) ==
    IF IsBlank(line)
      THEN IF l.state = "InMoves"
             THEN Iter([l EXCEPT !.raw = Append(@, RawNewline)], TRUE, FALSE)
           ELSE IF l.state = "InHeaders"
             THEN Iter([l EXCEPT !.state = "InMoves", !.raw = Append(@, RawNewline)],
                       FALSE, FALSE)
           ELSE Iter(l, FALSE, FALSE)
    ELSE IF l.state = "BetweenGames"
      THEN IF IsHeader(line)
             THEN Iter(ExtractHeaderInto([l EXCEPT !.state = "InHeaders",
                                                   !.raw = Append(@, RawLine(line))], line),
                       FALSE, FALSE)
             ELSE Iter(l, FALSE, FALSE)
    ELSE IF l.state = "InHeaders"
      THEN IF IsHeader(line)
             THEN Iter(ExtractHeaderInto([l EXCEPT !.raw = Append(@, RawLine(line))], line),
                       FALSE, FALSE)
             ELSE Iter([l EXCEPT !.state = "InMoves",
                                 !.raw = Append(Append(@, RawNewline), RawLine(line))],
                       FALSE, FALSE)
    ELSE IF IsHeader(line)
      THEN Iter(l, TRUE, TRUE)
      ELSE Iter([l EXCEPT !.half_moves = @ + CountClk(line),
                          !.raw = Append(@, RawLine(line))], FALSE, FALSE)

\* NextGameBody that leaves the move lines read in InMoves out of the text.
NextGameBody_RawWithoutMoves(l, line) ==
    IF IsBlank(line)
      THEN IF l.state = "InMoves"
             THEN Iter([l EXCEPT !.raw = Append(@, RawNewline)], TRUE, FALSE)
           ELSE IF l.state = "InHeaders"
             THEN Iter([l EXCEPT !.state = "InMoves", !.raw = Append(@, RawNewline)],
                       FALSE, FALSE)
           ELSE Iter(l, FALSE, FALSE)
    ELSE IF l.state = "BetweenGames"
      THEN IF IsHeader(line)
             THEN Iter(ExtractHeaderInto([l EXCEPT !.state = "InHeaders",
                                                   !.raw = Append(@, RawLine(line))], line),
                       FALSE, FALSE)
             ELSE Iter(l, FALSE, FALSE)
    ELSE IF l.state = "InHeaders"
      THEN IF IsHeader(line)
             THEN Iter(ExtractHeaderInto([l EXCEPT !.raw = Append(@, RawLine(line))], line),
                       FALSE, FALSE)
             ELSE Iter([l EXCEPT !.state = "InMoves",
                                 !.half_moves = @ + CountClk(line),
                                 !.raw = Append(Append(@, RawNewline), RawLine(line))],
                       FALSE, FALSE)
    ELSE IF IsHeader(line)
      THEN Iter(l, TRUE, TRUE)
      ELSE Iter([l EXCEPT !.half_moves = @ + CountClk(line)], FALSE, FALSE)

\* next_game, lines 162-232: the loop body after a successful read_line.
NextGameBody(l, line) ==
    IF IsBlank(line)
      THEN IF l.state = "InMoves"
             THEN Iter([l EXCEPT !.raw = Append(@, RawNewline)], TRUE, FALSE)
           ELSE IF l.state = "InHeaders"
             THEN Iter([l EXCEPT !.state = "InMoves", !.raw = Append(@, RawNewline)],
                       FALSE, FALSE)
           ELSE Iter(l, FALSE, FALSE)
    ELSE IF l.state = "BetweenGames"
      THEN IF IsHeader(line)
             THEN Iter(ExtractHeaderInto([l EXCEPT !.state = "InHeaders",
                                                   !.raw = Append(@, RawLine(line))], line),
                       FALSE, FALSE)
             ELSE Iter(l, FALSE, FALSE)
    ELSE IF l.state = "InHeaders"
      THEN IF IsHeader(line)
             THEN Iter(ExtractHeaderInto([l EXCEPT !.raw = Append(@, RawLine(line))], line),
                       FALSE, FALSE)
             ELSE Iter([l EXCEPT !.state = "InMoves",
                                 !.half_moves = @ + CountClk(line),
                                 !.raw = Append(Append(@, RawNewline), RawLine(line))],
                       FALSE, FALSE)
    ELSE IF IsHeader(line)
      THEN Iter(l, TRUE, TRUE)
      ELSE Iter([l EXCEPT !.half_moves = @ + CountClk(line),
                          !.raw = Append(@, RawLine(line))], FALSE, FALSE)

\* The loop body of the entry point in use.
LoopBody(mode, l, line) ==
    IF mode = "info" THEN NextInfoBody(l, line) ELSE NextGameBody(l, line)

\* GameInfo / Game as returned (lines 65-71, 147-156); raw_pgn is <<>> for
\* next_info, which returns no text.
GameOf(l) ==
    [event |-> l.event, white |-> l.white, black |-> l.black,
     time_control |-> l.time_control, half_move_count |-> l.half_moves,
     raw_pgn |-> l.raw]

(***************************************************************************)
(* SpecParser: one PgnParser over a reader that hands out any lines, then   *)
(* reports the end of the stream; the caller uses one entry point, as each  *)
(* pass of the pipeline does (pipeline.rs:196, 241), and calls it again and *)
(* again.  One step per iteration of the entry point's loop.                *)
(***************************************************************************)
PsNew(mode) ==
    [ mode    |-> mode,        \* the entry point the caller uses: "info" or "game"
      input   |-> <<>>,        \* the lines the reader has handed out, in order
      eof     |-> FALSE,       \* the reader has reported the end of the stream
      eofReads |-> 0,          \* reads made at the end of the stream
      pending |-> <<>>,        \* pending_line: <<>> is None, <<line>> is Some(line)
      pendAt  |-> 0,           \* the position in `input` of the pending line
      pc      |-> "idle",      \* "idle", "loop" (inside the entry point), "failed"
      l       |-> LocalsNew,   \* the locals of the call
      cur     |-> <<>>,        \* positions of the lines that went into the record
      iters   |-> 0,           \* iterations the call has made
      out     |-> <<>>,        \* what the calls returned, in order
      pushed  |-> <<>> ]       \* positions of the lines pushed back, in order

psKeep == UNCHANGED <<ctlVars, dbVars, txVars, fsVars, archive, flt, pw, ppc, runs, err,
                      events, loc, hist>>

\* Ok(Some(..)) and Ok(None) as recorded in ps.out: the record, the positions
\* of its lines and what ended it ("blank", "header", "eof").
ReturnSome(l, at, end) == [some |-> TRUE, game |-> GameOf(l), lines |-> at, end |-> end]
ReturnNone == [some |-> FALSE, game |-> GameOf(LocalsNew), lines |-> <<>>, end |-> "eof"]

\* The caller calls next_info / next_game: the locals are initialised.
PsCall ==
    /\ ps.pc = "idle"
    /\ ps.eofReads < MaxEofReads
    /\ ps' = [ps EXCEPT !.pc = "loop", !.l = LocalsNew, !.cur = <<>>, !.iters = 0]
    /\ psKeep

\* One iteration with a line in line_buf, taken from position `at`.
PsIterate(base, line, at) ==
    LET r == LoopBody(ps.mode, ps.l, line)
        \* the line is a header or a move line of the record in progress
        used == ~IsBlank(line) /\ r.l.state # "BetweenGames" /\ ~r.push
        cur2 == IF used THEN Append(ps.cur, at) ELSE ps.cur
    IN  ps' = [base EXCEPT
                 !.l = r.l,
                 !.cur = cur2,
                 !.iters = @ + 1,
                 !.pc = IF r.ret THEN "idle" ELSE "loop",
                 !.pending = IF r.push THEN << line >> ELSE base.pending,
                 !.pendAt = IF r.push THEN at ELSE base.pendAt,
                 !.pushed = IF r.push THEN Append(@, at) ELSE @,
                 !.out = IF r.ret
                           THEN Append(@, ReturnSome(r.l, cur2,
                                                     IF r.push THEN "header" ELSE "blank"))
                           ELSE @]

\* PsLoopPending that reads the pending line without taking it.
PsLoopPending_NoTake ==
    /\ ps.pc = "loop"
    /\ ps.pending # <<>>
    /\ PsIterate(ps, ps.pending[1], ps.pendAt)
    /\ psKeep

\* read_line (lines 43-51) takes the pending line.
PsLoopPending ==
    /\ ps.pc = "loop"
    /\ ps.pending # <<>>
    /\ PsIterate([ps EXCEPT !.pending = <<>>, !.pendAt = 0], ps.pending[1], ps.pendAt)
    /\ psKeep

\* read_line reads the next line of the stream.
PsLoopRead ==
    /\ ps.pc = "loop"
    /\ ps.pending = <<>>
    /\ ~ps.eof
    /\ Len(ps.input) < MaxLines
    /\ \E line \in ParserLines :
          PsIterate([ps EXCEPT !.input = Append(@, line)], line, Len(ps.input) + 1)
    /\ psKeep

\* PsLoopEof that returns None whatever the state.
PsLoopEof_DropsRecord ==
    /\ ps.pc = "loop"
    /\ ps.pending = <<>>
    /\ ps' = [ps EXCEPT !.eof = TRUE, !.eofReads = @ + 1, !.iters = @ + 1,
                        !.pc = "idle", !.out = Append(@, ReturnNone)]
    /\ psKeep

\* read_line returns false: the stream has ended (lines 63-75, 145-160).
PsLoopEof ==
    /\ ps.pc = "loop"
    /\ ps.pending = <<>>
    /\ ps' = [ps EXCEPT
                !.eof = TRUE,
                !.eofReads = @ + 1,
                !.iters = @ + 1,
                !.pc = "idle",
                !.out = Append(@, IF ps.l.state # "BetweenGames"
                                    THEN ReturnSome(ps.l, ps.cur, "eof")
                                    ELSE ReturnNone)]
    /\ psKeep

\* read_line fails (an I/O error or bytes that are not UTF-8): the `?`
\* returns the error and the caller gives the parser up.
PsLoopErr ==
    /\ ps.pc = "loop"
    /\ ps.pending = <<>>
    /\ ~ps.eof
    /\ ps' = [ps EXCEPT !.pc = "failed"]
    /\ psKeep

InitParser ==
    /\ ControlNew
    /\ DbEmpty
    /\ TxIdle
    /\ FsEmpty
    /\ archive = ArchiveA
    /\ ppc = "idle"
    /\ runs = 0
    /\ err = "none"
    /\ events = <<>>
    /\ loc = LocInit
    /\ hist = HistInit
    /\ flt = NoFilterCall
    /\ pw = NoWriterCall
    /\ \E mode \in {"info", "game"} : ps = PsNew(mode)

NextParser ==
    \/ PsCall
    \/ PsLoopPending
    \/ PsLoopRead
    \/ PsLoopEof
    \/ PsLoopErr

SpecParser == InitParser /\ [][NextParser]_vars

(***************************************************************************)
(* Properties                                                              *)
(***************************************************************************)

\* The worker is inside cvar.wait, in the wait set.
WorkerParked == wpc = "wait" /\ parked

\* C1 (SpecCtl): the worker entered check() with the pause flag set and the
\* controller then called resume(), with no pause() or cancel() after it:
\* check() returns.  Once that resume() has returned no notification is to
\* come, so the worker must not be left in the wait set.
C1_ResumeReleasesCheck ==
    (obs.resumeAfterEntry /\ cpc = "idle") => ~WorkerParked

\* C2 (SpecCtl): once cancel() has returned, with no call of the controller
\* after it, a check() that was blocked or about to block on the pause flag
\* returns (with the cancellation failure): the worker is not left in the
\* wait set.
C2_CancelReleasesCheck ==
    (obs.cancelLast /\ cpc = "idle") => ~WorkerParked

\* C3 (SpecCtl): a check() call that starts after cancel() has returned
\* returns the cancellation failure from its first test, without taking the
\* lock or waiting, whatever the pause flag is.
C3_CheckAfterCancelFails ==
    obs.callAfterCancel =>
        /\ wpc \in {"l90", "out"}
        /\ wpc = "out" => (wres = "cancelled" /\ obs.retAt = "l90")

\* C3's case: pause() was called after cancel(), and a check() call that
\* started after cancel() returned has returned.
C3_Witness ==
    /\ obs.callAfterCancel
    /\ wpc = "out"
    /\ wres = "cancelled"
    /\ paused

\* C4 (SpecCtl): check() returns success only from the test of the pause
\* flag (line 93) finding it clear; a call entered while the pause is in
\* effect does not return as long as neither resume() nor cancel() is called;
\* and after a wake-up that finds the flag still set the worker goes back to
\* lock and wait.
C4_OkOnlyWhenPauseClear ==
    /\ [](obs.pauseHeld => wpc # "out")
    /\ [][(wres' = "ok" /\ wres # "ok") => (wpc = "l93" /\ ~paused)]_vars
    /\ [][(wpc = "l93" /\ obs.woke /\ paused /\ wpc' # wpc) => wpc' = "l94"]_vars

\* C4's case: the pause is in effect, the worker has woken up once (a
\* spurious wake-up), found the flag set and is waiting again.
C4_Witness ==
    /\ obs.pauseHeld
    /\ obs.woke
    /\ WorkerParked

\* The effect of update_player_counts(month, m) on the committed rows, from
\* `pre` to the present ones.
RowsAfterUpdate(pre, month, m) ==
    /\ DOMAIN players = (DOMAIN pre.players) \cup (DOMAIN m)
    /\ DOMAIN monthly = (DOMAIN pre.monthly) \cup {<<p, month>> : p \in DOMAIN m}
    /\ \A p \in DOMAIN m :
          /\ monthly[<<p, month>>] = m[p]
          /\ players[p] = (IF p \in DOMAIN pre.players THEN pre.players[p] ELSE 0) + m[p]
    /\ \A p \in (DOMAIN pre.players) \ (DOMAIN m) : players[p] = pre.players[p]
    /\ \A k \in DOMAIN pre.monthly :
          (k[2] # month \/ k[1] \notin DOMAIN m) => monthly[k] = pre.monthly[k]

\* C8 (SpecDb): after update_player_counts(month, m) has returned Ok, every
\* player of m has the monthly row (p, month) = m[p], replacing any earlier
\* one, and a total of its earlier total (0 if it had none) plus m[p]; all
\* other rows are as before.
C8_UpdateCountsEffect ==
    (dbCall.op = "update" /\ dbCall.ret = "ok") =>
        RowsAfterUpdate(dbCall.pre, dbCall.month, dbCall.counts)

\* C8's case: a player who had a row for another month and a total gets a
\* second monthly row, and the total is the sum of the two.
C8_Witness ==
    /\ dbCall.op = "update"
    /\ dbCall.ret = "ok"
    /\ \E p \in DOMAIN dbCall.counts :
          /\ p \in DOMAIN dbCall.pre.players
          /\ <<p, 1>> \in DOMAIN monthly
          /\ <<p, 2>> \in DOMAIN monthly
          /\ <<p, dbCall.month>> \notin DOMAIN dbCall.pre.monthly
          /\ players[p] = monthly[<<p, 1>>] + monthly[<<p, 2>>]

\* C9 (SpecDb): update_player_counts is atomic.  From the call until it
\* returns Ok the committed rows are those from before the call, also when a
\* statement or the commit has failed part-way; when it has returned Ok the
\* whole mapping is there.
C9_UpdateCountsAtomic ==
    dbCall.op = "update" =>
        IF dbCall.ret = "ok"
          THEN \A p \in DOMAIN dbCall.counts :
                  /\ <<p, dbCall.month>> \in DOMAIN monthly
                  /\ p \in DOMAIN players
          ELSE /\ players = dbCall.pre.players
               /\ monthly = dbCall.pre.monthly

\* C9's case: a call with two players failed after the monthly row of one
\* had been written and before its total was (line 89), with the other
\* player not yet visited or already written.
C9_Witness ==
    /\ dbCall.op = "update"
    /\ dbCall.ret = "err"
    /\ dbCall.at = "l89"
    /\ Cardinality(DOMAIN dbCall.counts) = 2
    /\ players # <<>>

\* C5 (Spec): when check() has reported cancellation at a checkpoint, the run
\* ends there: the index (processed_datasets, players, monthly_counts) is what
\* it was when the archive's iteration began, no later archive has been
\* started and the pruning pass has not run.
C5_CancelLeavesArchiveUnprocessed ==
    hist.abortAt # "none" =>
        /\ err = "cancelled"
        /\ ppc \in {"exit", "idle"}
        /\ processed = hist.snap.processed
        /\ players = hist.snap.players
        /\ monthly = hist.snap.monthly
        /\ \A k \in 1..Len(events) :
              /\ events[k].t \notin {"PruneStarted", "PruneComplete", "Finished"}
              /\ events[k].t = "DatasetStarted" => events[k].index < loc.idx

\* C5's case: cancellation reported inside pass 2 of the second archive,
\* the first one committed and frames already on disk.
C5_Witness ==
    /\ hist.abortAt = "q262"
    /\ loc.idx = 2
    /\ processed = {1}
    /\ players # <<>>
    /\ \E p \in Players : artifacts[p] # <<>>

\* An archive's counts are in the index.
CountsCommitted(m) == \E p \in Players : <<p, m>> \in DOMAIN monthly

\* C6 (Spec): wherever a run has stopped, no archive has its counts committed
\* without being marked processed, and none is marked processed with its
\* local compressed file still present.
C6_ArchiveAllOrNothing ==
    (ppc = "idle" /\ runs > 0) =>
        \A m \in Months :
            /\ CountsCommitted(m) => m \in processed
            /\ m \in processed => m \notin zst

\* C7 (Spec): after any sequence of runs every player's total_games is the
\* sum of the player's monthly_counts rows.
C7_TotalIsSumOfMonthly ==
    ppc = "idle" =>
        \A p \in DOMAIN players :
            players[p] = SumOver(monthly, {k \in DOMAIN monthly : k[1] = p})

\* The positions of an archive's iteration from the download to the commit.
WorkSites ==
    {"d11", "d16", "d42", "d50", "d53", "d66", "l52", "l55", "p190", "p196", "p206",
     "p209", "p222", "l58", "l76", "l80", "q237", "q241", "q249", "q253", "q258",
     "q262", "l83", "l90", "l93"}

\* C10 (Spec): an archive found in processed_datasets at the skip check gets
\* no download, pass, writer call or index change, only the start and skip
\* events; work is done only on an archive that is not marked processed, and
\* every archive before it in the list is marked: a run resumes at the first
\* unprocessed archive.
C10_ProcessedArchiveSkipped ==
    /\ [](ppc \in WorkSites =>
            /\ Url \notin processed
            /\ \A j \in 1..(loc.idx - 1) : Urls[j] \in processed)
    /\ [][(ppc = "l42" /\ Url \in processed /\ ppc' # ppc) =>
            /\ ppc' \in {"l37", "exit"}
            /\ UNCHANGED <<dbVars, fsVars>>
            /\ ppc' = "l37" =>
                  /\ events[Len(events)].t = "DatasetStarted"
                  /\ events' = Append(events, [t |-> "DatasetSkipped", name |-> Url])]_vars

\* C10's case: a second run, after a first one that completed archive 1 and
\* failed on archive 2, has skipped archive 1 and is at work on archive 2.
C10_Witness ==
    /\ runs = 2
    /\ hist.skipped = {1}
    /\ loc.idx = 2
    /\ ppc = "p196"
    /\ players # <<>>

\* C12 (SpecFilter): is_valid_game returns true iff the record's event equals
\* the configured event, the time-control filter is absent or equal to the
\* record's time control, and the half-move count is at least twice
\* min_full_moves (59 rejected and 60 accepted for min_full_moves = 30).
C12_FilterPolicy ==
    flt.ret # "none" =>
        (flt.ret = "true" <=>
            /\ flt.info.event = flt.config.event_filter
            /\ \/ flt.config.time_control_filter = <<>>
               \/ flt.info.time_control = flt.config.time_control_filter[1]
            /\ flt.info.half_move_count >= 2 * flt.config.min_full_moves)

\* The sides of the filter-passing records of `recs` that carry the name p.
Appearances(recs, p) ==
    Cardinality({x \in (1..Len(recs)) \X {"white", "black"} :
                    /\ IsValidGame(recs[x[1]], Config)
                    /\ recs[x[1]][x[2]] = p})

\* The positions of an archive's iteration at which its qualifying set is known.
AfterPass1 ==
    {"l76", "l80", "q237", "q241", "q249", "q253", "q258", "q262", "l83", "l90", "l93"}

\* C11 (Spec): once pass 1 of an archive is done, a player is in the
\* qualifying set iff the name is not empty and the filter-passing records of
\* the archive carry it, as White or Black, at least min_monthly_games times.
C11_QualifyingSet ==
    ppc \in AfterPass1 =>
        \A p \in Players \cup {""} :
            p \in loc.qualifying <=>
                (p # "" /\ Appearances(Records, p) >= MinMonthlyGames)

\* C11's case: one player with exactly min_monthly_games appearances, who
\* qualifies, and one with one less, who does not.
C11_Witness ==
    /\ ppc = "l76"
    /\ \E x, y \in Players :
          /\ Appearances(Records, x) = MinMonthlyGames
          /\ Appearances(Records, y) = MinMonthlyGames - 1
          /\ x \in loc.qualifying
          /\ y \notin loc.qualifying

\* C13 (Spec): when pass 2 of an archive and the flush after it have
\* succeeded, add_game has been called for every qualifying player as many
\* times as the pass-1 ledger counts the player, for no other name, and
\* Pass2Complete reports the sum of the qualifying players' ledger counts.
C13_Pass2MatchesLedger ==
    ppc = "l90" =>
        /\ DOMAIN hist.added = loc.qualifying
        /\ \A p \in loc.qualifying : hist.added[p] = loc.player_counts[p]
        /\ "" \notin DOMAIN hist.added
        /\ loc.extracted = SumOver(loc.player_counts, loc.qualifying)
        /\ events[Len(events)] =
              [t |-> "Pass2Complete",
               total_extracted |-> SumOver(loc.player_counts, loc.qualifying)]

\* C13's case: an archive with a record between two qualifying players,
\* written under both names, and a record with an empty name.
C13_Witness ==
    /\ ppc = "l90"
    /\ loc.qualifying = Players
    /\ \E i \in 1..Len(Records) :
          /\ IsValidGame(Records[i], Config)
          /\ Records[i].white \in loc.qualifying
          /\ Records[i].black \in loc.qualifying
          /\ Records[i].white # Records[i].black
    /\ \E i \in 1..Len(Records) :
          IsValidGame(Records[i], Config) /\ Records[i].black = ""
    /\ loc.extracted = 5

\* The monthly_counts rows of player p in the relation mon.
MonthlyRows(mon, p) == {<<k, mon[k]>> : k \in {x \in DOMAIN mon : x[1] = p}}

\* The pruning pass of the run has completed.
PruneDone == ppc \in {"l111", "l113"} \/ (ppc \in {"exit", "idle"} /\ err = "ok")

OrderStep(st, e) ==
    LET ph == st.ph
        k == st.k
        to(x) == [ph |-> x, k |-> k]
    IN  IF ph \in {"bad", "error"} THEN to("bad")
        ELSE IF e.t = "Error" THEN (IF ph \in {"finished", "reported"} THEN to("bad") ELSE to("error"))
        ELSE IF ph = "between" THEN
            IF e.t = "DatasetStarted" /\ k < Len(Urls) /\ e.index = k /\ e.total = Len(Urls)
              THEN to("started")
            ELSE IF e.t = "PruneStarted" /\ k = Len(Urls) THEN to("prune")
            ELSE to("bad")
        ELSE IF ph = "started" THEN
            IF e.t = "DatasetSkipped" THEN [ph |-> "between", k |-> k + 1]
            ELSE IF e.t = "Log" /\ e.msg = "Already downloaded" THEN to("downloaded")
            ELSE IF e.t = "Log" /\ e.msg = "Downloading" THEN to("request")
            ELSE to("bad")
        ELSE IF ph = "request" THEN
            IF e.t = "DownloadStarted" THEN to("download") ELSE to("bad")
        ELSE IF ph = "download" THEN
            IF e.t = "DownloadProgress" THEN to("download")
            ELSE IF e.t = "DownloadComplete" THEN to("downloaded")
            ELSE to("bad")
        ELSE IF ph = "downloaded" THEN
            IF e.t = "Pass1Started" THEN to("pass1") ELSE to("bad")
        ELSE IF ph = "pass1" THEN
            IF e.t = "Pass1Progress" THEN to("pass1")
            ELSE IF e.t = "Pass1Complete" THEN to("counted")
            ELSE to("bad")
        ELSE IF ph = "counted" THEN
            IF e.t = "Pass2Started" THEN to("pass2")
            ELSE IF e.t = "DatasetComplete" THEN [ph |-> "between", k |-> k + 1]
            ELSE to("bad")
        ELSE IF ph = "pass2" THEN
            IF e.t = "Pass2Progress" THEN to("pass2")
            ELSE IF e.t = "Pass2Complete" THEN to("extracted")
            ELSE to("bad")
        ELSE IF ph = "extracted" THEN
            IF e.t = "DatasetComplete" THEN [ph |-> "between", k |-> k + 1] ELSE to("bad")
        ELSE IF ph = "prune" THEN
            IF e.t = "PruneComplete" THEN to("pruned") ELSE to("bad")
        ELSE IF ph = "pruned" THEN
            IF e.t = "Finished" THEN to("finished") ELSE to("bad")
        ELSE IF ph = "finished" THEN
            IF e.t = "Finished" THEN to("reported") ELSE to("bad")
        ELSE to("bad")

\* The automaton's state after the first n events of es.
RECURSIVE OrderAfter(_, _)
OrderAfter(es, n) ==
    IF n = 0 THEN [ph |-> "between", k |-> 0]
    ELSE OrderStep(OrderAfter(es, n - 1), es[n])

\* C15 (Spec): the events of a run come in the order of the work: per
\* archive, in configured order, DatasetStarted, then DatasetSkipped or the
\* download events, Pass1Started, Pass1Progress, Pass1Complete, optionally
\* Pass2Started, Pass2Progress, Pass2Complete, then DatasetComplete; the
\* prune events come only after the last archive.
C15_EventOrder == OrderAfter(events, Len(events)).ph # "bad"

\* C15's case: a complete run that skipped the first archive, took the
\* second through both passes and pruned.
C15_Witness ==
    /\ OrderAfter(events, Len(events)).ph = "reported"
    /\ \E i, j \in 1..Len(events) :
          /\ events[i].t = "DatasetSkipped"
          /\ events[j].t = "Pass2Progress"

\* C16 (Spec): within pass 1 and within pass 2 the records consumed since
\* the pass's last check() (or since the pass began) never exceed the check
\* interval.
C16_CheckEveryInterval ==
    ppc \in {"p196", "p206", "p209", "p222", "q241", "q249", "q253", "q258", "q262", "l83"} =>
        hist.sinceCheck <= CheckEvery

\* An add_game call has returned.
AddReturned == pw.pc = "idle" /\ pw.op = "add"

\* C17 (SpecWriter): for a maximum > 0, after every add_game that returns Ok
\* the running size is strictly below the maximum, and the running size is
\* at or above the maximum only between the append and the flush it
\* triggers, inside that flush, or after that flush has failed.
C17_SizeBelowMaxAfterAdd ==
    pw.w.max_buffer_size > 0 =>
        /\ (AddReturned /\ pw.ret = "ok") => pw.w.buffer_size < pw.w.max_buffer_size
        /\ pw.w.buffer_size >= pw.w.max_buffer_size =>
              (pw.pc \in {"l48", "l56", "l57", "l63"} \/ pw.ret = "err")

\* C17's case: an add_game that brought the running size to exactly the
\* maximum has flushed and returned Ok.
C17_Witness ==
    /\ AddReturned
    /\ pw.ret = "ok"
    /\ pw.size0 > 0
    /\ pw.size0 + pw.len + 1 = pw.w.max_buffer_size

\* C18 (SpecWriter): an add_game call runs flush_all once if the running
\* size after the append (text length + 1) is at or above the maximum, and
\* not at all otherwise.
C18_FlushIffMaxReached ==
    /\ pw.flushes <= 1
    /\ AddReturned =>
          pw.flushes = IF pw.size0 + pw.len + 1 >= pw.w.max_buffer_size THEN 1 ELSE 0

\* C18's case: after an add_game that stayed below the maximum, one that
\* went over it has flushed both players' entries and returned.
C18_Witness ==
    /\ AddReturned
    /\ pw.flushes = 1
    /\ pw.size0 > 0
    /\ pw.size0 < pw.w.max_buffer_size
    /\ pw.size0 + pw.len + 1 > pw.w.max_buffer_size
    /\ Cardinality(DOMAIN pw.drained) = 2

\* An add_game call that triggered a flush has returned Ok.
AddFlushed == AddReturned /\ pw.ret = "ok" /\ pw.flushes = 1

\* C19 as stated (SpecWriter): when an add_game call triggers a flush, the
\* running size when it returns is the size of the triggering record
\* (text length + 1).
C19_SizeIsTriggeringRecord ==
    AddFlushed => pw.w.buffer_size = 0 + (pw.len + 1)

\* C19 amended (SpecWriter): when an add_game call triggers a flush, the
\* running size when it returns is zero and the buffer is empty: the
\* triggering record, appended before the test, is in the frame written for
\* its player.
C19_SizeZeroAfterFlush ==
    AddFlushed =>
        /\ pw.w.buffer_size = 0
        /\ pw.w.buffer = <<>>
        /\ \E p \in Players :
              /\ artifacts[p] # <<>>
              /\ LET frame == artifacts[p][Len(artifacts[p])]
                 IN frame[Len(frame)] = pw.calls

\* C19's case: the flush triggered by an add_game wrote the entries of two
\* players, one of them holding only the triggering record.
C19_Witness ==
    /\ AddFlushed
    /\ pw.size0 > 0
    /\ Cardinality(DOMAIN pw.drained) = 2
    /\ \E p \in DOMAIN pw.drained : pw.drained[p] = <<pw.calls>>

\* The entry flush_all drained for p is on disk, as the frame after those
\* the file had.
Written(p) == artifacts[p] = Append(pw.art0[p], pw.drained[p])

\* The entry flush_all drained for p is still in the buffer.
StillBuffered(p) == p \in DOMAIN pw.w.buffer /\ pw.w.buffer[p] = pw.drained[p]

\* C20 (SpecWriter): when flush_all has reset the running size every
\* drained entry has been written, and when a write has failed the entry of
\* every other player is either written or still in the buffer.
C20_FlushAllOrNothing ==
    (pw.pc = "idle" /\ pw.flushes = 1) =>
        /\ pw.ret = "ok" => \A p \in DOMAIN pw.drained : Written(p)
        /\ pw.ret = "err" =>
              \A p \in (DOMAIN pw.drained) \ {pw.failed} : Written(p) \/ StillBuffered(p)


\* ---- C21 ----
\* The texts of a sequence of frames, concatenated in append order.
RECURSIVE Flatten(_)
Flatten(frames) ==
    IF frames = <<>> THEN <<>> ELSE Head(frames) \o Flatten(Tail(frames))

\* The texts added for player p, in call order.
RECURSIVE AddedFor(_, _)
AddedFor(log, p) ==
    IF log = <<>> THEN <<>>
    ELSE IF Head(log).player = p
           THEN << Head(log).text >> \o AddedFor(Tail(log), p)
           ELSE AddedFor(Tail(log), p)

Buffered(p) == IF p \in DOMAIN pw.w.buffer THEN pw.w.buffer[p] ELSE <<>>

\* A flush_all has drained the map and not yet been followed by another call.
FlushRan == pw.flushes = 1 /\ pw.pc \in {"l57", "l63", "idle"}

\* C21: with no I/O error so far and no call in progress, each player's
\* frames on disk, concatenated in append order and followed by the player's
\* buffer, are the texts added for that player in call order (each text
\* carries its newline); a flush_all leaves the frames a file had when it
\* began in place and appends at most one frame to it.
C21_DiskThenBufferIsAdded ==
    /\ (pw.pc = "idle" /\ ~pw.ioError) =>
          \A p \in Players :
              Flatten(artifacts[p]) \o Buffered(p) = AddedFor(pw.log, p)
    /\ FlushRan =>
          \A p \in Players :
              /\ Len(artifacts[p]) \in {Len(pw.art0[p]), Len(pw.art0[p]) + 1}
              /\ SubSeq(artifacts[p], 1, Len(pw.art0[p])) = pw.art0[p]

\* Two flushes have each appended a frame to one player's file.
C21_Witness ==
    /\ pw.pc = "idle"
    /\ ~pw.ioError
    /\ \E p \in Players : Len(artifacts[p]) >= 2 /\ Len(AddedFor(pw.log, p)) >= 3

\* ---- the parser's results as a function of the whole stream ----
\* The four header fields and the half-move count of a returned record.
InfoOf(g) ==
    [event |-> g.event, white |-> g.white, black |-> g.black,
     time_control |-> g.time_control, half_move_count |-> g.half_move_count]

\* The records that repeated calls of the entry point return on the stream
\* `lines`, up to the first None: the loop body applied line by line, a
\* pushed-back line read again by the next call.
RECURSIVE Drive(_, _, _, _)
Drive(mode, lines, l, out) ==
    IF lines = <<>>
      THEN IF l.state # "BetweenGames" THEN Append(out, GameOf(l)) ELSE out
      ELSE LET r == LoopBody(mode, l, Head(lines)) IN
           IF r.ret
             THEN Drive(mode, IF r.push THEN lines ELSE Tail(lines), LocalsNew,
                        Append(out, GameOf(r.l)))
             ELSE Drive(mode, Tail(lines), r.l, out)

ParseAll(mode, lines) == Drive(mode, lines, LocalsNew, <<>>)

Infos(games) == [k \in 1..Len(games) |-> InfoOf(games[k])]

\* The records returned so far, and whether the caller has seen the stream
\* end (the last call returned None).
Returned == SelectSeq(ps.out, LAMBDA o : o.some)
ReturnedGames == [k \in 1..Len(Returned) |-> Returned[k].game]
ParserDone == ps.pc = "idle" /\ ps.out # <<>> /\ ~ps.out[Len(ps.out)].some

BlankLine == Line(TRUE, "empty", "", "", FALSE, 0, "crlf")

\* `lines` with a blank line put in front of each position of `at`.
RECURSIVE WithBlanksBefore(_, _, _)
WithBlanksBefore(lines, at, k) ==
    IF k > Len(lines) THEN <<>>
    ELSE (IF k \in at THEN << BlankLine, lines[k] >> ELSE << lines[k] >>)
           \o WithBlanksBefore(lines, at, k + 1)

Range(s) == {s[i] : i \in DOMAIN s}

\* ---- C22 ----
\* The positions of the header lines that directly follow a line of moves.
HeadersAfterMoves(lines) ==
    {i \in 2..Len(lines) : IsHeader(lines[i]) /\ lines[i - 1].t = "text"}

\* C22: a header line read in InMoves ends the record, is kept as the pending
\* line and is the first line of the record the next call returns; the two
\* records' lines are disjoint and are all the non-blank lines from the first
\* line of the one to the last line of the other; every header line that
\* directly follows a line of moves is the first line of a returned record,
\* and the stream parses into the same records (fields and half-move counts)
\* as the stream with a blank line in front of every such header.
C22_PushedBackHeaderStartsNext ==
    /\ \A k \in 1..Len(ps.out) :
          ps.out[k].end = "header" =>
            LET j == Cardinality({i \in 1..k : ps.out[i].end = "header"})
                at == ps.pushed[j]
            IN  /\ IsHeader(ps.input[at])
                /\ at \notin Range(ps.out[k].lines)
                /\ IF k < Len(ps.out)
                     THEN /\ ps.out[k + 1].some
                          /\ ps.out[k + 1].lines[1] = at
                          /\ Range(ps.out[k].lines) \cap Range(ps.out[k + 1].lines) = {}
                          /\ Range(ps.out[k].lines) \cup Range(ps.out[k + 1].lines)
                               = {i \in ps.out[k].lines[1] ..
                                          ps.out[k + 1].lines[Len(ps.out[k + 1].lines)] :
                                     ~IsBlank(ps.input[i])}
                     ELSE \/ ps.pending = << ps.input[at] >> /\ ps.pendAt = at
                          \/ ps.pc # "idle" /\ ps.cur # <<>> /\ ps.cur[1] = at
    /\ ParserDone =>
          /\ \A i \in HeadersAfterMoves(ps.input) :
                \E k \in 1..Len(Returned) : Returned[k].lines[1] = i
          /\ Infos(ReturnedGames)
                = Infos(ParseAll(ps.mode,
                                 WithBlanksBefore(ps.input, HeadersAfterMoves(ps.input), 1)))

\* Two records with no blank line between them have been returned, each with
\* move lines of its own.
C22_Witness ==
    /\ ParserDone
    /\ Len(Returned) = 2
    /\ Returned[1].end = "header"
    /\ Returned[1].game.event = "blitz"
    /\ Returned[1].game.half_move_count = 1
    /\ Returned[2].game.event = "rapid"
    /\ Returned[2].game.half_move_count = 2

\* ---- C23 ----
\* The positions of the move lines that directly follow a header line.
MovesAfterHeaders(lines) ==
    {i \in 2..Len(lines) : lines[i].t = "text" /\ IsHeader(lines[i - 1])}

RECURSIVE ClkSum(_, _)
ClkSum(lines, at) ==
    IF at = <<>> THEN 0
    ELSE (IF lines[Head(at)].t = "text" THEN CountClk(lines[Head(at)]) ELSE 0)
           + ClkSum(lines, Tail(at))

\* C23: a move line that directly follows a header line belongs to that
\* header's record and its clock markers are counted in the record's
\* half-move count; the stream parses into the same records (fields and
\* half-move counts, and the same text from next_game) as the stream with a
\* blank line between every such header and move line.
C23_NoBlankAfterHeaders ==
    ParserDone =>
      /\ \A i \in MovesAfterHeaders(ps.input) :
            \E k \in 1..Len(Returned) :
                /\ (i - 1) \in Range(Returned[k].lines)
                /\ i \in Range(Returned[k].lines)
                /\ Returned[k].game.half_move_count = ClkSum(ps.input, Returned[k].lines)
      /\ ReturnedGames
           = ParseAll(ps.mode, WithBlanksBefore(ps.input, MovesAfterHeaders(ps.input), 1))

\* A record whose two move lines follow its two headers with no blank line
\* has been returned.
C23_Witness ==
    /\ ParserDone
    /\ \E k \in 1..Len(Returned) :
          /\ Returned[k].lines = << 1, 2, 3, 4 >>
          /\ 3 \in MovesAfterHeaders(ps.input)
          /\ Returned[k].game.half_move_count = 3
          /\ Returned[k].game.event = "rapid"
          /\ Returned[k].game.white = "al"

\* ---- C24 ----
\* The value of the last `key` tag among the lines at the positions `at`.
RECURSIVE LastTag(_, _, _)
LastTag(lines, at, key) ==
    IF at = <<>> THEN ""
    ELSE LET line == lines[at[Len(at)]] IN
         IF IsHeader(line) /\ line.quoted /\ line.key = key
           THEN line.value
           ELSE LastTag(lines, SubSeq(at, 1, Len(at) - 1), key)

\* C24: a call that meets the end of the stream returns a record exactly when
\* it is in InHeaders or InMoves; that record holds every non-blank line from
\* its first header to the end of the stream, its fields are the values of
\* its last tags and its count the markers of its move lines; every call
\* after a call that met the end of the stream returns None.
C24_EofReturnsRecordInProgress ==
    /\ \A k \in 1..Len(ps.out) :
          ps.out[k].end = "eof" =>
            /\ \A j \in (k + 1)..Len(ps.out) : ~ps.out[j].some
            /\ ps.out[k].some =>
                 LET r == ps.out[k] IN
                 /\ r.lines # <<>>
                 /\ Range(r.lines) = {i \in r.lines[1]..Len(ps.input) : ~IsBlank(ps.input[i])}
                 /\ r.game.event = LastTag(ps.input, r.lines, "Event")
                 /\ r.game.white = LastTag(ps.input, r.lines, "White")
                 /\ r.game.half_move_count = ClkSum(ps.input, r.lines)
    /\ (ps.pc = "idle" /\ ps.eofReads = 1) =>
          (ps.out[Len(ps.out)].some <=> ps.l.state \in {"InHeaders", "InMoves"})

\* The stream ended in InMoves: the record was returned with its header and
\* its markers, and the next call returned None.
C24_Witness ==
    /\ ps.pc = "idle"
    /\ Len(ps.out) >= 2
    /\ ps.out[Len(ps.out) - 1].some
    /\ ps.out[Len(ps.out) - 1].end = "eof"
    /\ ps.out[Len(ps.out) - 1].game.half_move_count = 3
    /\ ps.out[Len(ps.out) - 1].game.white = "al"
    /\ ~ps.out[Len(ps.out)].some

\* ---- C25 ----
\* C25: the text of every record next_game returns, parsed again by either
\* entry point, yields exactly one record, with the same four fields and the
\* same half-move count.
C25_RawTextRoundTrip ==
    ps.mode = "game" =>
      \A k \in 1..Len(Returned) :
          /\ Infos(ParseAll("game", Returned[k].game.raw_pgn)) = << InfoOf(Returned[k].game) >>
          /\ Infos(ParseAll("info", Returned[k].game.raw_pgn)) = << InfoOf(Returned[k].game) >>

\* next_game has returned a record that had no blank line after its headers
\* and was ended by the next record's header, then a record ended by the end
\* of the stream; the first record's text has the separating line added.
C25_Witness ==
    /\ ps.mode = "game"
    /\ ParserDone
    /\ Len(Returned) = 2
    /\ Returned[1].end = "header"
    /\ Returned[1].lines = << 1, 2, 3 >>
    /\ 3 \in MovesAfterHeaders(ps.input)
    /\ Len(Returned[1].game.raw_pgn) = 4
    /\ Returned[1].game.half_move_count = 2
    /\ Returned[2].end = "eof"

\* ---- C26 ----
\* A stream of records separated by blank lines, read from position i on:
\* the records as <<positions of the header lines, positions of the move
\* lines>>, or ok = FALSE if the stream is not of that form (a move line
\* outside a record or directly after a header, a header directly after a
\* move line or after the blank line that follows the headers).
\* phase: "sep" between records, "tags" in a header block, "gap" after the
\* blank line that ends it, "moves" in the move lines.
RECURSIVE Split(_, _, _, _, _)
Split(lines, i, phase, rec, acc) ==
    IF i > Len(lines)
      THEN [ok |-> TRUE, recs |-> IF phase = "sep" THEN acc ELSE Append(acc, rec)]
    ELSE LET t == lines[i].t IN
      IF phase = "sep"
        THEN IF t = "empty" THEN Split(lines, i + 1, "sep", rec, acc)
             ELSE IF t = "tag" THEN Split(lines, i + 1, "tags", << << i >>, <<>> >>, acc)
             ELSE [ok |-> FALSE, recs |-> <<>>]
      ELSE IF phase = "tags"
        THEN IF t = "tag"
               THEN Split(lines, i + 1, "tags", << Append(rec[1], i), <<>> >>, acc)
             ELSE IF t = "empty" THEN Split(lines, i + 1, "gap", rec, acc)
             ELSE [ok |-> FALSE, recs |-> <<>>]
      ELSE IF phase = "gap"
        THEN IF t = "text"
               THEN Split(lines, i + 1, "moves", << rec[1], << i >> >>, acc)
             ELSE IF t = "empty" THEN Split(lines, i + 1, "sep", rec, Append(acc, rec))
             ELSE [ok |-> FALSE, recs |-> <<>>]
      ELSE IF t = "text"
             THEN Split(lines, i + 1, "moves", << rec[1], Append(rec[2], i) >>, acc)
           ELSE IF t = "empty" THEN Split(lines, i + 1, "sep", rec, Append(acc, rec))
           ELSE [ok |-> FALSE, recs |-> <<>>]

BlankSeparated(lines) == Split(lines, 1, "sep", << <<>>, <<>> >>, <<>>)

\* C26: on a stream of records separated by blank lines, the calls return
\* the stream's records one by one and then None; each record's Event and
\* White are the values of the last such tag of its header block (the other
\* fields stay empty, other keys change nothing), its half-move count is the
\* number of clock markers in its move lines, and next_game's text holds its
\* header lines and then its move lines, in order.
C26_BlankSeparatedRecords ==
    (ParserDone /\ BlankSeparated(ps.input).ok) =>
      LET recs == BlankSeparated(ps.input).recs IN
      /\ Len(Returned) = Len(recs)
      /\ \A k \in 1..Len(ps.out) : ps.out[k].some <=> k <= Len(recs)
      /\ \A k \in 1..Len(recs) :
            LET g == Returned[k].game IN
            /\ Returned[k].lines = recs[k][1] \o recs[k][2]
            /\ g.event = LastTag(ps.input, recs[k][1], "Event")
            /\ g.white = LastTag(ps.input, recs[k][1], "White")
            /\ g.black = ""
            /\ g.time_control = ""
            /\ g.half_move_count = ClkSum(ps.input, recs[k][2])
            /\ IF ps.mode = "game"
                 THEN SelectSeq(g.raw_pgn, LAMBDA x : ~IsBlank(x))
                        = [n \in 1..Len(Returned[k].lines) |->
                              RawLine(ps.input[Returned[k].lines[n]])]
                 ELSE g.raw_pgn = <<>>

\* A record with two Event tags, a blank line, a line of moves and a blank
\* line has been returned, and the next call has returned None.
C26_Witness ==
    /\ ParserDone
    /\ BlankSeparated(ps.input).ok
    /\ Len(ps.out) = 2
    /\ Len(Returned) = 1
    /\ Returned[1].end = "blank"
    /\ Returned[1].lines = << 1, 2, 4 >>
    /\ ps.input[1].value = "blitz"
    /\ Returned[1].game.event = "rapid"
    /\ Returned[1].game.half_move_count = 2

\* ---- C27 ----
\* C27: a call makes at most one iteration per line handed out so far plus
\* one (each iteration takes the pending line, reads a line, or meets the end
\* of the stream and returns); the records returned are at most as many as
\* the lines; once a call has returned None every later call returns None; a
\* pending line is taken by the first iteration of the next call, and no
\* line is pushed back twice.
C27_CallsTerminate ==
    /\ ps.iters <= Len(ps.input) + 1
    /\ Len(Returned) <= Len(ps.input)
    /\ \A k \in 1..Len(ps.out) :
          ~ps.out[k].some => \A j \in k..Len(ps.out) : ~ps.out[j].some
    /\ ps.pending # <<>> => (ps.pc = "idle" \/ (ps.pc = "loop" /\ ps.iters = 0))
    /\ (ps.pc = "loop" /\ ps.iters >= 1) => ps.pending = <<>>
    /\ \A i, j \in 1..Len(ps.pushed) : i < j => ps.pushed[i] < ps.pushed[j]

\* Two lines were pushed back and taken, three records were returned, and
\* then None by two calls.
C27_Witness ==
    /\ ParserDone
    /\ Len(ps.pushed) = 2
    /\ Len(Returned) = 3
    /\ Len(ps.out) = 5
    /\ ps.pending = <<>>

\* ---- C28 ----
\* download is past its first test, or has returned an error.
DownloadUnfinished == ppc \in {"d16", "d42", "d50", "d53", "d66", "exit"}

\* C28 as stated: after a download that failed or was cancelled the
\* destination path does not exist.
C28_NoDestinationAfterFailure ==
    ppc = "exit" => Month \notin zst \cup zstEmpty

\* C28 amended: a destination that exists holds all the bytes of the body,
\* whatever calls failed or were cancelled since; after a successful return
\* it exists; while a download is under way and after it failed or was
\* cancelled there is no non-empty destination, so that the next call
\* downloads again.
C28_DestinationCompleteOrUnusable ==
    /\ \A m \in zst \cup zstEmpty :
          m \in DOMAIN hist.zstBytes /\ hist.zstBytes[m] = ZstSize(m)
    /\ zst \cap zstEmpty = {}
    /\ \A m \in zst : ZstSize(m) > 0
    /\ ppc = "l52" => Month \in zst \cup zstEmpty
    /\ DownloadUnfinished => Month \notin zst

\* A download was cancelled with the .part file written, and the next call
\* has downloaded the whole body.
C28_Witness ==
    /\ runs = 2
    /\ ppc = "l52"
    /\ Month \in zst
    /\ hist.abortAt = "d50"
    /\ loc.downloaded = ZstSize(Month)

\* ---- C29 ----
CountEvents(t) == Cardinality({i \in 1..Len(events) : events[i].t = t})

\* The lines of the final prune, and the lines of an archive's iteration that
\* follow the commit of its counts.
PruneSites == {"l103", "l107", "l110", "l111", "l113"}
AfterCommitSites == {"l93", "l95"}

C30_CancelIsNotAnError ==
    (err = "cancelled" /\ ppc = "idle") => CountEvents("Error") = 0

\* ---- C31 ----
\* C31: in pass 1 and in pass 2 no two consecutive records of the archive
\* each send a progress event.
C31_ProgressThrottled ==
    \A p \in hist.progAt : (p + 1) \notin hist.progAt

\* ---- C32 ----
\* The entry point the caller of this parser does not use.
OtherEntry == IF ps.mode = "info" THEN "game" ELSE "info"

IsPrefix(s, t) == Len(s) <= Len(t) /\ \A k \in 1..Len(s) : s[k] = t[k]

\* C32: on the same input, the (Event, White, Black, TimeControl, half-move
\* count) of the records that repeated calls of one entry point return are
\* those that repeated calls of the other entry point return: the same
\* records so far while the stream is read, the same whole sequence once the
\* caller has seen the stream end.
C32_EntryPointsAgree ==
    LET other == Infos(ParseAll(OtherEntry, ps.input)) IN
    /\ IsPrefix(Infos(ReturnedGames), other)
    /\ ParserDone => Infos(ReturnedGames) = other

\* next_info has returned two records of one stream, the first ended by the
\* header of the second and with moves directly after its headers, and has
\* then seen the stream end.
C32_Witness ==
    /\ ps.mode = "info"
    /\ ParserDone
    /\ Len(Returned) = 2
    /\ Returned[1].end = "header"
    /\ 3 \in MovesAfterHeaders(ps.input)
    /\ Returned[1].game.half_move_count = 2
    /\ Returned[2].game.half_move_count > 0

\* ---- C33 ----
\* The record texts of month m in player p's artifact, in file order.
TextsOf(art, p, m) ==
    IF art = <<>> THEN <<>> ELSE SelectSeq(Flatten(art[p]), LAMBDA t : t[1] = m)

Occurrences(s, t) == Cardinality({k \in 1..Len(s) : s[k] = t})

\* The count pass 1 gives player p over an archive's records (lines 209-219).
RECURSIVE Pass1CountOf(_, _)
Pass1CountOf(recs, p) ==
    IF recs = <<>> THEN 0
    ELSE (IF IsValidGame(Head(recs), Config)
            THEN (IF Head(recs).white = p THEN 1 ELSE 0) + (IF Head(recs).black = p THEN 1 ELSE 0)
            ELSE 0) + Pass1CountOf(Tail(recs), p)

\* The add_game calls one pass 2 makes for player p with a record that passes
\* the filter (lines 249-256): one per side that names p.
AddsPerRun(rec, p) ==
    (IF rec.white = p THEN 1 ELSE 0) + (IF rec.black = p THEN 1 ELSE 0)

\* The run in progress follows a run cancelled at the check of pass 2 that had
\* already flushed frames of that archive.
ResumedAfterPass2Cancel ==
    /\ hist.earlier.month # 0
    /\ \E p \in Players : TextsOf(hist.earlier.artifacts, p, hist.earlier.month) # <<>>

\* The events of the iteration of archive number i show both passes.
BothPassesRan(i) ==
    \E a, b, c \in 1..Len(events) :
        /\ a < b /\ b < c
        /\ events[a].t = "DatasetStarted" /\ events[a].index = i - 1
        /\ events[b].t = "Pass1Started"
        /\ events[c].t = "Pass2Started"
        /\ \A k \in (a + 1)..c : events[k].t # "DatasetStarted"

\* No step takes a frame out of an artifact or changes one; only
\* delete_player (line 108) removes a player's whole file.
NoRollback ==
    \A p \in Players :
        \/ IsPrefix(artifacts[p], artifacts'[p])
        \/ ppc = "l107" /\ artifacts'[p] = <<>>

\* C33: frames flushed before a cancellation at the check of pass 2 stay in
\* the artifacts (no step removes or changes a frame, the cancellation and
\* the start of the next run included); the next run does not skip that
\* archive, runs both passes over it and appends every record text again; the
\* archive's counts are committed once: the monthly row of a player is the
\* pass-1 count of the archive, not a multiple of it.
C33_FlushedFramesStayAndRepeat ==
    /\ [][NoRollback]_vars
    /\ [](ResumedAfterPass2Cancel =>
            LET m == hist.earlier.month IN
            /\ m \notin hist.skipped
            /\ (ppc \in {"l31", "l37"} /\ loc.idx = 0) =>
                  /\ artifacts = hist.earlier.artifacts
                  /\ m \notin processed
            /\ m \in processed =>
                  /\ \E i \in 1..Len(Urls) : Urls[i] = m /\ BothPassesRan(i)
                  /\ \A p \in Players :
                        /\ artifacts[p] # <<>> =>
                              \A k \in 1..Len(TextsOf(hist.earlier.artifacts, p, m)) :
                                  LET t == TextsOf(hist.earlier.artifacts, p, m)[k] IN
                                  Occurrences(TextsOf(artifacts, p, m), t)
                                     = Occurrences(TextsOf(hist.earlier.artifacts, p, m), t)
                                         + AddsPerRun(archive[m][t[2]], p)
                        /\ <<p, m>> \in DOMAIN monthly =>
                              monthly[<<p, m>>] = Pass1CountOf(archive[m], p))

\* A run cancelled in pass 2 after a flush was followed by a run that ended
\* successfully: a record text is twice in a player's artifact and the
\* artifact holds more texts of the month than the player's monthly count.
C33_Witness ==
    /\ ResumedAfterPass2Cancel
    /\ ppc = "idle"
    /\ err = "ok"
    /\ \E p \in Players :
          LET m == hist.earlier.month
              s == TextsOf(artifacts, p, m) IN
          /\ <<p, m>> \in DOMAIN monthly
          /\ \E k \in 1..Len(s) : Occurrences(s, s[k]) = 2
          /\ Len(s) > monthly[<<p, m>>]

\* ---- C34 ----
\* The positions of lines 80-90: pass 2, the last flush and the counts.
Pass2Sites == {"l80", "q237", "q241", "q249", "q253", "q258", "q262", "l83", "l90"}

\* The events sent since the DatasetStarted of the archive at hand.
IterationEvents ==
    LET starts == {k \in 1..Len(events) : events[k].t = "DatasetStarted"}
        last == CHOOSE k \in starts : \A j \in starts : j <= k
    IN IF starts = {} THEN <<>> ELSE SubSeq(events, last + 1, Len(events))

\* C34: an archive whose qualifying set is empty gets no pass 2 (none of
\* lines 80-90 runs, no Pass2Started is sent), no artifact is written and no
\* players or monthly_counts row is changed; the archive is still marked
\* processed and its local compressed file removed before DatasetComplete.
C34_EmptyQualifyingSet ==
    /\ (ppc \in {"l76", "l93", "l95", "l99"} \cup Pass2Sites /\ loc.idx >= 1
          /\ loc.qualifying = {}) =>
          /\ ppc \notin Pass2Sites
          /\ \A k \in 1..Len(IterationEvents) :
                IterationEvents[k].t \notin {"Pass2Started", "Pass2Progress", "Pass2Complete"}
          /\ artifacts = hist.snap.artifacts
          /\ players = hist.snap.players
          /\ monthly = hist.snap.monthly
          /\ ppc \in {"l76", "l93"} => processed = hist.snap.processed
          /\ ppc \in {"l95", "l99"} => processed = hist.snap.processed \cup {Month}
          /\ ppc = "l99" => Month \notin zst \cup zstEmpty

\* An archive with valid records and two counted players, none of them
\* qualifying, has reached DatasetComplete's line.
C34_Witness ==
    /\ ppc = "l99"
    /\ loc.qualifying = {}
    /\ loc.valid > 0
    /\ Cardinality(DOMAIN loc.player_counts) = 2
    /\ Month \in processed
    /\ Month \notin hist.snap.processed

\* ---- C35 ----
\* The 10 MiB stretch a byte count lies in.
Stretch(n) == n \div TenMiB

\* C35: inside the read loop, past the loop head, check() has been called at
\* a byte count of the 10 MiB stretch the download is in, whatever the sizes
\* of the reads, so fewer than 10 MiB + 64 KiB bytes are received between two
\* calls; at the loop head's check the count is in the stretch's window.
C35_WindowNotSteppedOver ==
    /\ ppc = "d53" =>
          /\ Stretch(hist.dlChecked) = Stretch(loc.downloaded)
          /\ hist.dlChecked % TenMiB < CheckWindow
          /\ loc.downloaded - hist.dlChecked < TenMiB
    /\ ppc = "d50" =>
          /\ hist.dlChecked = loc.downloaded
          /\ loc.downloaded % TenMiB < CheckWindow

\* The download reached one byte less than 10 MiB, the next full read took
\* it to the last byte of the window, and check() was called there.
C35_Witness ==
    /\ ppc = "d53"
    /\ loc.downloaded = TenMiB + CheckWindow - 1
    /\ hist.dlChecked = loc.downloaded

\* ---- C36 ----
\* C36: the channel of a run that has ended holds exactly one terminal event:
\* one Finished and no Error when run_with_sink returned Ok, one Error and no
\* Finished when it returned an error, and while the run goes on at most one.
C36_OneTerminalEvent ==
    /\ CountEvents("Finished") + CountEvents("Error") <= 1
    /\ (ppc = "idle" /\ runs > 0) =>
          /\ err = "ok" => CountEvents("Finished") = 1 /\ CountEvents("Error") = 0
          /\ err # "ok" => CountEvents("Error") = 1 /\ CountEvents("Finished") = 0

\* ---- C37 ----
\* The bytes add_game put into the buffer for the text of call number t: the
\* text and the newline (writer.rs:44-45).
BytesOfText(t) == pw.log[CHOOSE k \in 1..Len(pw.log) : pw.log[k].text = t].len + 1

RECURSIVE BytesOfTexts(_)
BytesOfTexts(texts) ==
    IF texts = <<>> THEN 0 ELSE BytesOfText(Head(texts)) + BytesOfTexts(Tail(texts))

RECURSIVE BufferBytes(_, _)
BufferBytes(buffer, S) ==
    IF S = {} THEN 0
    ELSE LET p == CHOOSE q \in S : TRUE
         IN BytesOfTexts(buffer[p]) + BufferBytes(buffer, S \ {p})

\* C37: between calls, buffer_size is the number of bytes held in all the
\* players' entries of the buffer, whatever add_game and flush_all calls were
\* made and however they ended.
C37_SizeIsBufferedBytes ==
    pw.pc = "idle" => pw.w.buffer_size = BufferBytes(pw.w.buffer, DOMAIN pw.w.buffer)

\* ---- C38 ----
\* C38: in the committed index, after any sequence of update_player_counts
\* and remove_players_below_total calls, however each ended, every
\* monthly_counts row is of a player that has a players row and every players
\* row has at least one monthly_counts row.
C38_ReferentialIntegrity ==
    /\ \A key \in DOMAIN monthly : key[1] \in DOMAIN players
    /\ \A p \in DOMAIN players : \E key \in DOMAIN monthly : key[1] = p

\* A remove_players_below_total has committed that deleted one player with
\* the player's rows of two months and kept another.
C38_Witness ==
    /\ dbpc = "idle"
    /\ dbCall.op = "remove"
    /\ dbCall.ret = "ok"
    /\ players # <<>>
    /\ \E p \in DOMAIN dbCall.pre.players :
          /\ p \notin DOMAIN players
          /\ Cardinality({key \in DOMAIN dbCall.pre.monthly : key[1] = p}) = 2

C40_SecondRunChangesNothing ==
    hist.before.ok =>
        /\ players = hist.before.players
        /\ monthly = hist.before.monthly
        /\ processed = hist.before.processed
        /\ artifacts = hist.before.artifacts
        /\ \A k \in 1..Len(events) :
              /\ events[k].t \notin {"Pass1Started", "Pass2Started", "DownloadStarted"}
              /\ events[k].t = "PruneStarted" => events[k].to_remove = 0
              /\ events[k].t = "PruneComplete" => events[k].removed = 0
        /\ (ppc = "idle" /\ err = "ok") =>
              /\ hist.skipped = {Urls[i] : i \in 1..Len(Urls)}
              /\ CountEvents("PruneComplete") = 1

\* The second of two successful runs has ended; the first left two archives
\* processed, rows in the index and an artifact with frames.
C40_Witness ==
    /\ hist.before.ok
    /\ ppc = "idle"
    /\ err = "ok"
    /\ Cardinality(processed) = 2
    /\ players # <<>>
    /\ \E p \in Players : Len(artifacts[p]) >= 2
====
